---- MODULE Spec2Model ----
(***************************************************************************)
(* State-machine model of CompleteStakingHealthCheck                       *)
(* (src/staking-protocol-hc.py): the ledger scan, the flow aggregation,    *)
(* the health score, the projections / selling-pressure timeline and the   *)
(* executive summary, one action per method of run_complete_analysis.      *)
(*                                                                         *)
(* Conventions                                                             *)
(*  - balances are whole tokens (integers); an estimated amount and every  *)
(*    sum of amounts is the double the program computes, kept as a record  *)
(*    [tokens, frac] with frac in units of 2^-FracBits of a token;         *)
(*  - a value the program rounds to two decimals (round(x, 2)) is kept as  *)
(*    the integer number of hundredths it denotes (14.37 is 1437);         *)
(*  - Python floats are IEEE-754 doubles: quotients and products that are  *)
(*    rounded afterwards are computed with a 53-bit mantissa, so that the  *)
(*    rounding sees the same value as in the program;                      *)
(*  - times are seconds; hexadecimal strings are sequences of digit values.*)
(***************************************************************************)
EXTENDS Integers, Sequences, FiniteSets, TLC

VARIABLES
    pc,                     \* position inside run_complete_analysis
    run_days,               \* the argument days of the current run
    run_supply,             \* the argument total_supply of the current run (0: not given)
    scan_head,              \* current_block of the stake, unstake and weekly scans of the run
    staking_contract,       \* self.staking_contract
    total_supply,           \* self.total_supply
    actual_staked_balance,  \* self.actual_staked_balance
    head,                   \* ledger: number of the latest block
    chain,                  \* ledger: the blocks that carry transactions, ascending
    token_balance,          \* ledger: answer of the balanceOf call (-1: the call fails)
    now,                    \* clock of the analysing host: the instant (seconds)
    zone,                   \* time zone of the analysing host
    ledger_reads,           \* number of ledger requests issued by the current run
    balance_data,           \* result of get_total_staked_balance
    staking_data,           \* result of analyze_staking_events
    unstaking_data,         \* result of analyze_unstaking_events
    flow_analysis,          \* result of analyze_staking_flows
    health_metrics,         \* result of calculate_complete_health_metrics
    projections,            \* result of calculate_projections_and_pressure
    executive_summary       \* result of generate_executive_summary

vars == <<pc, run_days, run_supply, scan_head, staking_contract, total_supply, actual_staked_balance,
          head, chain, token_balance, now, zone, ledger_reads, balance_data,
          staking_data, unstaking_data, flow_analysis, health_metrics,
          projections, executive_summary>>

----------------------------------------------------------------------------
(* Program constants *)

DefaultTotalSupply == 1000000000
EstimatedBalance   == 458000000
BlocksPerDay       == 43200
ScanStep           == 100
CountStep          == 200
UnlockDays         == 14
SecondsPerDay      == 86400
DaysPerWeek        == 7
MaxWeeks           == 4
PressureDays       == 14
TimelineShown      == 7
ProjectionDays     == 30

StakeSignatures   == <<"0xa694fc3a", "0xb6b55f25", "0x1249c58b">>
UnstakeSignatures == <<"0xf48355b9", "0x2e1a7d4d", "0x3d18b912", "0xa06c1a33">>

----------------------------------------------------------------------------
(* Bounds of the model *)

MaxBlocks  == 3      \* blocks mined during a behaviour
MaxTicks   == 2      \* clock advances during a behaviour
MaxAmount  == 14     \* largest stake / unstake total of the input grid, in units

----------------------------------------------------------------------------
(* IEEE-754 double arithmetic on non-negative values.  A big natural is a  *)
(* sequence of limbs, least significant first; a double is m * 2^e with a  *)
(* 53-bit m.                                                               *)

LimbBits == 18
LimbBase == 2^LimbBits

RECURSIVE BitLen(_)
BitLen(v) == IF v = 0 THEN 0 ELSE 1 + BitLen(v \div 2)

BigBitLen(L) ==
    LET nz == {i \in 1..Len(L) : L[i] # 0}
    IN  IF nz = {} THEN 0
        ELSE LET top == CHOOSE i \in nz : \A j \in nz : j <= i
             IN  LimbBits * (top - 1) + BitLen(L[top])

BigBit(L, k) ==
    LET i == (k \div LimbBits) + 1
    IN  IF i > Len(L) THEN 0 ELSE (L[i] \div 2^(k % LimbBits)) % 2

BigLowNonZero(L, k) == \E j \in 0..(k - 1) : BigBit(L, j) = 1

BigShr(L, s) ==
    LET w   == s \div LimbBits
        t   == s % LimbBits
        cnt == Len(L) - w
    IN  IF cnt <= 0 THEN <<>>
        ELSE [i \in 1..cnt |->
                (L[i + w] \div 2^t)
                + (IF i + w + 1 <= Len(L)
                   THEN (L[i + w + 1] % 2^t) * 2^(LimbBits - t)
                   ELSE 0)]

RECURSIVE BigInc(_)
BigInc(L) ==
    IF L = <<>> THEN <<1>>
    ELSE IF L[1] + 1 < LimbBase THEN <<L[1] + 1>> \o Tail(L)
    ELSE <<0>> \o BigInc(Tail(L))

RECURSIVE BigMulSmall(_, _, _)
BigMulSmall(L, c, carry) ==
    IF L = <<>> THEN (IF carry = 0 THEN <<>> ELSE <<carry>>)
    ELSE LET v == L[1] * c + carry
         IN  <<v % LimbBase>> \o BigMulSmall(Tail(L), c, v \div LimbBase)

RECURSIVE BigToNat(_)
BigToNat(L) == IF L = <<>> THEN 0 ELSE L[1] + LimbBase * BigToNat(Tail(L))

\* nearest integer to (L + a sticky fraction) / 2^s, ties to even (s >= 1)
BigRoundShr(L, s, sticky) ==
    LET q  == BigShr(L, s)
        up == /\ BigBit(L, s - 1) = 1
              /\ \/ sticky
                 \/ BigLowNonZero(L, s - 1)
                 \/ BigBit(L, s) = 1
    IN  IF up THEN BigInc(q) ELSE q

\* the double nearest to L * 2^e, L of more than 53 bits
ToFloat(L, e, sticky) ==
    LET s == BigBitLen(L) - 53
        r == BigRoundShr(L, s, sticky)
    IN  IF BigBitLen(r) = 54 THEN [m |-> BigShr(r, 1), e |-> e + s + 1]
        ELSE [m |-> r, e |-> e + s]

\* the double x * c, for a small positive integer c
FloatMul(x, c) == ToFloat(BigMulSmall(x.m, c, 0), x.e, FALSE)

\* the integer nearest to x * c, ties to even: round(x, 2) is RoundScaled(x, 100)
\* hundredths, round(x) is RoundScaled(x, 1)
RoundScaled(x, c) == BigToNat(BigRoundShr(BigMulSmall(x.m, c, 0), -(x.e), FALSE))

\* the limbs of a natural number below 2^31
BigNat(n) ==
    IF n = 0 THEN <<>>
    ELSE IF n < LimbBase THEN <<n>>
    ELSE <<n % LimbBase, n \div LimbBase>>

BigLimb(L, i) == IF i <= Len(L) THEN L[i] ELSE 0

\* L * 2^s
BigShl(L, s) ==
    LET w == s \div LimbBits
        t == s % LimbBits
    IN  IF L = <<>> THEN <<>>
        ELSE [i \in 1..(Len(L) + w + 1) |->
                IF i <= w THEN 0
                ELSE ((BigLimb(L, i - w) % 2^(LimbBits - t)) * 2^t)
                     + (IF i - w - 1 >= 1 THEN BigLimb(L, i - w - 1) \div 2^(LimbBits - t)
                        ELSE 0)]

RECURSIVE BigAddCarry(_, _, _)
BigAddCarry(L, K, carry) ==
    IF L = <<>> /\ K = <<>> THEN (IF carry = 0 THEN <<>> ELSE <<carry>>)
    ELSE LET v == BigLimb(L, 1) + BigLimb(K, 1) + carry
         IN  <<v % LimbBase>>
             \o BigAddCarry(IF L = <<>> THEN <<>> ELSE Tail(L),
                            IF K = <<>> THEN <<>> ELSE Tail(K), v \div LimbBase)

\* L - K - borrow, for L >= K + borrow
RECURSIVE BigSubBorrow(_, _, _)
BigSubBorrow(L, K, borrow) ==
    IF L = <<>> THEN <<>>
    ELSE LET v == L[1] - BigLimb(K, 1) - borrow
         IN  <<(v + LimbBase) % LimbBase>>
             \o BigSubBorrow(Tail(L), IF K = <<>> THEN <<>> ELSE Tail(K),
                             IF v < 0 THEN 1 ELSE 0)

\* L < K
BigLess(L, K) ==
    LET n    == IF Len(L) > Len(K) THEN Len(L) ELSE Len(K)
        diff == {i \in 1..n : BigLimb(L, i) # BigLimb(K, i)}
    IN  /\ diff # {}
        /\ LET top == CHOOSE i \in diff : \A j \in diff : j <= i
           IN  BigLimb(L, top) < BigLimb(K, top)

\* L * K, K given by its digits to the base 2^13, least significant first
RECURSIVE BigMulDigits(_, _)
BigMulDigits(L, digits) ==
    IF digits = <<>> THEN <<>>
    ELSE BigAddCarry(BigMulSmall(L, digits[1], 0),
                     BigShl(BigMulDigits(L, Tail(digits)), 13), 0)

Abs(v)  == IF v < 0 THEN -v ELSE v

----------------------------------------------------------------------------
(* Token amounts.  estimate_transaction_amount returns a double that is no *)
(* whole number, and the totals are sums of such doubles.  An amount is    *)
(* kept as the whole number of tokens nearest to it and the rest in units  *)
(* of 2^-37 token: every double from 2^15 up to 2^16 is a multiple of      *)
(* that unit, and so are the sums and differences of such doubles.         *)

FracBits == 37

Whole(n) == [tokens |-> n, frac |-> 0]

AmtSign(a) ==
    IF a.tokens > 0 THEN 1 ELSE IF a.tokens < 0 THEN -1
    ELSE IF a.frac > 0 THEN 1 ELSE IF a.frac < 0 THEN -1 ELSE 0

AmtAbs(a) == IF AmtSign(a) < 0 THEN [tokens |-> -(a.tokens), frac |-> -(a.frac)] ELSE a

\* the double nearest to tokens + frac * 2^-37, ties to even: a double from
\* 2^k up to 2^(k+1) is a multiple of 2^(k-52)
FloatRound(a) ==
    LET sign  == AmtSign(a)
        abs   == AmtAbs(a)
        ip    == IF abs.frac < 0 THEN abs.tokens - 1 ELSE abs.tokens
        k     == BitLen(ip) - 1
        step  == 2^(k - 52 + FracBits)
        q     == abs.frac \div step
        r     == abs.frac % step
        up    == IF 2 * r > step \/ (2 * r = step /\ q % 2 = 1) THEN 1 ELSE 0
    IN  IF k - 52 + FracBits <= 0 THEN a
        ELSE [tokens |-> sign * abs.tokens, frac |-> sign * (q + up) * step]

\* x + y and x - y of doubles
AmtAdd(x, y) == FloatRound([tokens |-> x.tokens + y.tokens, frac |-> x.frac + y.frac])

AmtSub(x, y) == FloatRound([tokens |-> x.tokens - y.tokens, frac |-> x.frac - y.frac])

\* total = 0; for amount in amounts: total += amount, the amounts being >= 0
\* (the test on total only fixes the order of evaluation)
RECURSIVE AmtSum(_, _)
AmtSum(amounts, total) ==
    IF amounts = <<>> \/ AmtSign(total) < 0 THEN total
    ELSE AmtSum(Tail(amounts), AmtAdd(total, Head(amounts)))

\* the w bits from bit pos downwards, 37 the first and 1 the last, of the part
\* after the point of an amount > 0 (2^37 + frac when frac < 0); 0 beyond the
\* last
FracDigit(frac, pos, w) ==
    LET hi == IF frac < 0 THEN 2^(FracBits - 30) - 1 ELSE 0
        lo == IF frac < 0 THEN 2^30 + frac ELSE frac
    IN  IF pos <= 0 THEN 0
        ELSE IF pos < w THEN (lo % 2^pos) * 2^(w - pos)
        ELSE IF pos - w >= 30 THEN (hi \div 2^(pos - w - 30)) % 2^w
        ELSE IF pos <= 30 THEN (lo \div 2^(pos - w)) % 2^w
        ELSE (hi % 2^(pos - 30)) * 2^(30 - (pos - w)) + (lo \div 2^(pos - w))

\* k more quotient bits of a long division by d, r the remainder so far and
\* pos the next bit to bring down: <<quotient, remainder>>. The bits come w
\* at a time, w the widest divisor of 18 that keeps r * 2^w below 2^31
\* (the tests on q and r only fix the order of evaluation)
RECURSIVE LongDiv(_, _, _, _, _, _)
LongDiv(q, r, d, frac, pos, k) ==
    LET w == IF d <= 2^13 THEN 18 ELSE IF d <= 2^22 THEN 9 ELSE IF d <= 2^25 THEN 6
             ELSE IF d <= 2^28 THEN 3 ELSE IF d <= 2^29 THEN 2 ELSE 1
        x == r * 2^w + FracDigit(frac, pos, w)
    IN  IF k = 0 \/ q < 0 \/ r < 0 THEN <<q, r>>
        ELSE LongDiv(q * 2^w + (x \div d), x % d, d, frac, pos - w, k - w)

\* the double a / d, for an amount a > 0 and a whole number 0 < d < 2^30 with
\* a / d at least 2^-36
AmtDiv(a, d) ==
    LET n  == IF a.frac < 0 THEN a.tokens - 1 ELSE a.tokens
        ip == n \div d
        f1 == LongDiv(0, n % d, d, a.frac, FracBits, LimbBits)
        f2 == LongDiv(0, f1[2], d, a.frac, FracBits - LimbBits, LimbBits)
        f3 == LongDiv(0, f2[2], d, a.frac, FracBits - 2 * LimbBits, LimbBits)
        f4 == LongDiv(0, f3[2], d, 0, 0, LimbBits)
        f5 == LongDiv(0, f4[2], d, 0, 0, LimbBits)
    IN  ToFloat(<<f5[1], f4[1], f3[1], f2[1], f1[1], ip % LimbBase, ip \div LimbBase>>,
                -(5 * LimbBits), f5[2] # 0)

\* round(a / d, 2) in hundredths (c = 100) and round(a / d) (c = 1), for an
\* amount a
AmtDivRound(a, d, c) ==
    IF AmtSign(a) = 0 THEN 0 ELSE AmtSign(a) * RoundScaled(AmtDiv(AmtAbs(a), d), c)

\* round((a / d) * 100, 2) in hundredths, for an amount a
AmtPctRound2(a, d) ==
    IF AmtSign(a) = 0 THEN 0
    ELSE AmtSign(a) * RoundScaled(FloatMul(AmtDiv(AmtAbs(a), d), 100), 100)

\* the sign of x - c, for a double x > 0 and a whole number c > 0
FloatCmpInt(x, c) ==
    LET floor == IF x.e >= 0 THEN BigToNat(BigShl(x.m, x.e)) ELSE BigToNat(BigShr(x.m, -(x.e)))
    IN  IF BigBitLen(x.m) + x.e > 30 \/ floor > c THEN 1
        ELSE IF floor < c THEN -1
        ELSE IF x.e < 0 /\ BigLowNonZero(x.m, -(x.e)) THEN 1 ELSE 0

\* the sign of (a / d) * 100 - c, for an amount a and whole numbers d > 0, c
AmtPctCmp(a, d, c) ==
    IF AmtSign(a) = 0 THEN (IF c < 0 THEN 1 ELSE IF c > 0 THEN -1 ELSE 0)
    ELSE IF AmtSign(a) > 0 /\ c <= 0 THEN 1
    ELSE IF AmtSign(a) < 0 /\ c >= 0 THEN -1
    ELSE AmtSign(a) * FloatCmpInt(FloatMul(AmtDiv(AmtAbs(a), d), 100), Abs(c))

\* k more quotient bits of the long division by dh * 2^30 + dl, the remainder
\* so far being rh * 2^30 + rl: <<quotient, remainder high, remainder low>>
\* (the tests on q, rh and rl only fix the order of evaluation)
RECURSIVE RatioBits(_, _, _, _, _, _)
RatioBits(q, rh, rl, dh, dl, k) ==
    LET h == 2 * rh + (rl \div 2^29)
        l == (2 * rl) % 2^30
    IN  IF k = 0 \/ q < 0 \/ rh < 0 \/ rl < 0 THEN <<q, rh, rl>>
        ELSE IF h > dh \/ (h = dh /\ l >= dl)
             THEN RatioBits(2 * q + 1, h - dh - (IF l < dl THEN 1 ELSE 0),
                            (l - dl) % 2^30, dh, dl, k - 1)
             ELSE RatioBits(2 * q, h, l, dh, dl, k - 1)

\* the double a / b, for amounts a <= b of at least one token and below 2^23
\* tokens: whole numbers are divided as they are, other amounts are taken in
\* units of 2^-37 token, as two digits to the base 2^30
AmtRatio(a, b) ==
    LET ah == a.tokens * 2^(FracBits - 30) - (IF a.frac < 0 THEN 1 ELSE 0)
        al == IF a.frac < 0 THEN 2^30 + a.frac ELSE a.frac
        bh == b.tokens * 2^(FracBits - 30) - (IF b.frac < 0 THEN 1 ELSE 0)
        bl == IF b.frac < 0 THEN 2^30 + b.frac ELSE b.frac
        c0 == IF ah = bh /\ al = bl THEN <<1, 0, 0>> ELSE <<0, ah, al>>
        c1 == RatioBits(0, c0[2], c0[3], bh, bl, LimbBits)
        c2 == RatioBits(0, c1[2], c1[3], bh, bl, LimbBits)
        c3 == RatioBits(0, c2[2], c2[3], bh, bl, LimbBits)
        c4 == RatioBits(0, c3[2], c3[3], bh, bl, LimbBits)
        c5 == RatioBits(0, c4[2], c4[3], bh, bl, LimbBits)
    IN  IF a.frac = 0 /\ b.frac = 0 THEN AmtDiv(a, b.tokens)
        ELSE ToFloat(<<c5[1], c4[1], c3[1], c2[1], c1[1], c0[1]>>, -(5 * LimbBits),
                     c5[2] # 0 \/ c5[3] # 0)

\* the amount a >= 0 in units of 2^-37 token
AmtBig(a) ==
    IF a.frac >= 0 THEN BigAddCarry(BigShl(BigNat(a.tokens), FracBits), BigNat(a.frac), 0)
    ELSE BigSubBorrow(BigShl(BigNat(a.tokens), FracBits), BigNat(-(a.frac)), 0)

\* the doubles 0.1 and 0.3 of the trend bands: digits to the base 2^13 of
\* 3602879701896397 * 2^-55 and of 5404319552844595 * 2^-54
Tenth       == [digits |-> <<3277, 1638, 4915, 6553>>, e |-> -55]
ThreeTenths == [digits |-> <<4915, 6553, 3276, 1638, 1>>, e |-> -54]

\* the sign of a - stake * c, for amounts a >= 0 and stake >= 0 and c one of
\* the doubles above: the product is rounded to a double, the test is exact
AmtCmpTimes(a, stake, c) ==
    LET x == IF AmtSign(stake) = 0 THEN [m |-> <<>>, e |-> 0]
             ELSE ToFloat(BigMulDigits(AmtBig(stake), c.digits), c.e - FracBits, FALSE)
        s == x.e + FracBits
        L == IF s >= 0 THEN AmtBig(a) ELSE BigShl(AmtBig(a), -s)
        K == IF s >= 0 THEN BigShl(x.m, s) ELSE x.m
    IN  IF BigLess(L, K) THEN -1 ELSE IF BigLess(K, L) THEN 1 ELSE 0

----------------------------------------------------------------------------
(* get_total_staked_balance *)

\* BalanceSnapshot with an answer of 0 taken as a direct reading
BalanceSnapshot_ZeroDirect(reading, supply) ==
    LET direct == reading >= 0
        tokens == IF direct THEN reading ELSE EstimatedBalance
    IN  [balance_tokens       |-> tokens,
         percentage_of_supply |-> AmtPctRound2(Whole(tokens), supply),
         verification_method  |-> IF direct THEN "direct_balance_call"
                                            ELSE "estimated_from_activity"]

\* the snapshot for an answer `reading` of the balance call (whole tokens;
\* 0: no usable result, -1: the call raised) and a total supply
BalanceSnapshot(reading, supply) ==
    LET direct == reading > 0
        tokens == IF direct THEN reading ELSE EstimatedBalance
    IN  [balance_tokens       |-> tokens,
         percentage_of_supply |-> AmtPctRound2(Whole(tokens), supply),
         verification_method  |-> IF direct THEN "direct_balance_call"
                                            ELSE "estimated_from_activity"]

NoBalance ==
    [balance_tokens |-> 0, percentage_of_supply |-> 0, verification_method |-> "none"]

----------------------------------------------------------------------------
(* analyze_staking_flows *)

\* TrendOf with the first band closed at net = 10% of the stake total
TrendOf_Inclusive(stake_amount, net_amount) ==
    LET sign == AmtSign(net_amount)
        size == AmtAbs(net_amount)
    IN  IF sign >= 0 /\ AmtCmpTimes(size, stake_amount, Tenth) >= 0
        THEN [trend |-> "STRONG GROWTH", trend_score |-> 2]
        ELSE IF sign > 0 THEN [trend |-> "GROWTH", trend_score |-> 1]
        ELSE IF AmtCmpTimes(size, stake_amount, Tenth) < 0 THEN [trend |-> "STABLE", trend_score |-> 0]
        ELSE IF AmtCmpTimes(size, stake_amount, ThreeTenths) < 0 THEN [trend |-> "DECLINE", trend_score |-> -1]
        ELSE [trend |-> "STRONG DECLINE", trend_score |-> -2]

\* TrendOf with the STABLE band closed at net = -10% of the stake total
TrendOf_ClosedStable(stake_amount, net_amount) ==
    LET sign == AmtSign(net_amount)
        size == AmtAbs(net_amount)
    IN  IF sign > 0 /\ AmtCmpTimes(size, stake_amount, Tenth) > 0
        THEN [trend |-> "STRONG GROWTH", trend_score |-> 2]
        ELSE IF sign > 0 THEN [trend |-> "GROWTH", trend_score |-> 1]
        ELSE IF AmtCmpTimes(size, stake_amount, Tenth) <= 0 THEN [trend |-> "STABLE", trend_score |-> 0]
        ELSE IF AmtCmpTimes(size, stake_amount, ThreeTenths) < 0 THEN [trend |-> "DECLINE", trend_score |-> -1]
        ELSE [trend |-> "STRONG DECLINE", trend_score |-> -2]

\* trend and trend score from the amount totals: net_amount against the
\* doubles stake_amount * 0.1, 0, -stake_amount * 0.1 and -stake_amount * 0.3
\* (below the second test net_amount <= 0, and net > -x is |net| < x)
TrendOf(stake_amount, net_amount) ==
    LET sign == AmtSign(net_amount)
        size == AmtAbs(net_amount)
    IN  IF sign > 0 /\ AmtCmpTimes(size, stake_amount, Tenth) > 0
        THEN [trend |-> "STRONG GROWTH", trend_score |-> 2]
        ELSE IF sign > 0 THEN [trend |-> "GROWTH", trend_score |-> 1]
        ELSE IF AmtCmpTimes(size, stake_amount, Tenth) < 0 THEN [trend |-> "STABLE", trend_score |-> 0]
        ELSE IF AmtCmpTimes(size, stake_amount, ThreeTenths) < 0 THEN [trend |-> "DECLINE", trend_score |-> -1]
        ELSE [trend |-> "STRONG DECLINE", trend_score |-> -2]

\* round((part / whole) * 100, 2) in hundredths for an amount part >= 0 of an
\* amount whole >= part, 0 when whole is 0
AmountSharePct(part, whole) ==
    IF AmtSign(whole) <= 0 \/ AmtSign(part) = 0 THEN 0
    ELSE RoundScaled(FloatMul(AmtRatio(part, whole), 100), 100)

\* round((a / total_staked) * 100, 2) for an amount a, 0 when nothing is staked
StakedPct(a, total_staked) == IF total_staked > 0 THEN AmtPctRound2(a, total_staked) ELSE 0

FlowAnalysis(sd, ud, balance, weekly) ==
    LET stake_events   == sd.stake_events_found
        unstake_events == ud.unstake_events_found
        stake_amount   == sd.total_estimated_stake_amount
        unstake_amount == ud.total_estimated_unstake_amount
        days           == sd.period_days
        net_events     == stake_events - unstake_events
        net_amount     == AmtSub(stake_amount, unstake_amount)
        tr             == TrendOf(stake_amount, net_amount)
    IN  [comparison_metrics |->
            [stake_events   |-> stake_events,
             unstake_events |-> unstake_events,
             net_events     |-> net_events,
             stake_amount   |-> stake_amount,
             unstake_amount |-> unstake_amount,
             net_amount     |-> net_amount],
         daily_rates |->
            [daily_stake_events   |-> AmtDivRound(Whole(stake_events), days, 100),
             daily_unstake_events |-> AmtDivRound(Whole(unstake_events), days, 100),
             daily_stake_amount   |-> AmtDivRound(stake_amount, days, 1),
             daily_unstake_amount |-> AmtDivRound(unstake_amount, days, 1),
             daily_net_amount     |-> AmtDivRound(net_amount, days, 1)],
         percentages |->
            [stake_event_percentage    |-> AmountSharePct(Whole(stake_events), Whole(stake_events + unstake_events)),
             unstake_event_percentage  |-> AmountSharePct(Whole(unstake_events), Whole(stake_events + unstake_events)),
             stake_amount_percentage   |->
                AmountSharePct(stake_amount, AmtAdd(stake_amount, unstake_amount)),
             unstake_amount_percentage |->
                AmountSharePct(unstake_amount, AmtAdd(stake_amount, unstake_amount))],
         trend_analysis |->
            [trend               |-> tr.trend,
             trend_score         |-> tr.trend_score,
             net_flow_percentage |-> StakedPct(net_amount, balance)],
         weekly_breakdown |-> weekly]

NoFlow ==
    [comparison_metrics |->
        [stake_events |-> 0, unstake_events |-> 0, net_events |-> 0,
         stake_amount |-> Whole(0), unstake_amount |-> Whole(0), net_amount |-> Whole(0)],
     daily_rates |->
        [daily_stake_events |-> 0, daily_unstake_events |-> 0, daily_stake_amount |-> 0,
         daily_unstake_amount |-> 0, daily_net_amount |-> 0],
     percentages |->
        [stake_event_percentage |-> 0, unstake_event_percentage |-> 0,
         stake_amount_percentage |-> 0, unstake_amount_percentage |-> 0],
     trend_analysis |-> [trend |-> "none", trend_score |-> 0, net_flow_percentage |-> 0],
     weekly_breakdown |-> <<>>]

----------------------------------------------------------------------------
(* calculate_complete_health_metrics *)

\* factor 1: staking percentage (hundredths of a percent, as stored in the snapshot)
StakingFactor(staking_percentage) ==
    IF staking_percentage > 4000 THEN 2
    ELSE IF staking_percentage > 2000 THEN 1
    ELSE IF staking_percentage > 1000 THEN 0
    ELSE -1

\* IncidenceFactor with the bands closed at 2%, 5% and 10%
IncidenceFactor_Inclusive(unstaking_flow, total_staked) ==
    IF total_staked <= 0 THEN 2
    ELSE IF AmtPctCmp(unstaking_flow, total_staked, 2) <= 0 THEN 2
    ELSE IF AmtPctCmp(unstaking_flow, total_staked, 5) <= 0 THEN 1
    ELSE IF AmtPctCmp(unstaking_flow, total_staked, 10) <= 0 THEN 0
    ELSE -1

\* factor 2: unstaking incidence (unstaking flow / total staked) * 100, 0 when
\* nothing is staked
IncidenceFactor(unstaking_flow, total_staked) ==
    IF total_staked <= 0 THEN 2
    ELSE IF AmtPctCmp(unstaking_flow, total_staked, 2) < 0 THEN 2
    ELSE IF AmtPctCmp(unstaking_flow, total_staked, 5) < 0 THEN 1
    ELSE IF AmtPctCmp(unstaking_flow, total_staked, 10) < 0 THEN 0
    ELSE -1

\* NetFlowFactor judging the size of the net flow, not its direction
NetFlowFactor_Magnitude(net_flow, total_staked) ==
    IF total_staked <= 0 THEN 0
    ELSE IF AmtPctCmp(AmtAbs(net_flow), total_staked, 5) > 0 THEN 2
    ELSE IF AmtSign(net_flow) # 0 THEN 1
    ELSE 0

\* factor 4: net flow percentage (net flow / total staked) * 100, 0 when
\* nothing is staked
NetFlowFactor(net_flow, total_staked) ==
    IF total_staked <= 0 THEN 0
    ELSE IF AmtPctCmp(net_flow, total_staked, 5) > 0 THEN 2
    ELSE IF AmtPctCmp(net_flow, total_staked, 0) > 0 THEN 1
    ELSE IF AmtPctCmp(net_flow, total_staked, -5) > 0 THEN 0
    ELSE -1

\* HealthFactors without the append of the net flow factor
HealthFactors_NoNetFlow(bd, ud, fa) ==
    <<StakingFactor(bd.percentage_of_supply),
      IncidenceFactor(ud.total_estimated_unstake_amount, bd.balance_tokens),
      fa.trend_analysis.trend_score>>

HealthFactors(bd, ud, fa) ==
    <<StakingFactor(bd.percentage_of_supply),
      IncidenceFactor(ud.total_estimated_unstake_amount, bd.balance_tokens),
      fa.trend_analysis.trend_score,
      NetFlowFactor(fa.comparison_metrics.net_amount, bd.balance_tokens)>>

RECURSIVE SumSeq(_)
SumSeq(q) == IF q = <<>> THEN 0 ELSE Head(q) + SumSeq(Tail(q))

\* sum(health_factors) / len(health_factors), in hundredths
AverageScore(factors) == (100 * SumSeq(factors)) \div Len(factors)

\* HealthScore with strict comparisons
HealthScore_Strict(avg) ==
    IF avg > 150 THEN "EXCELLENT"
    ELSE IF avg > 50 THEN "GOOD"
    ELSE IF avg > -50 THEN "MODERATE"
    ELSE "CRITICAL"

\* the grade of an average score given in hundredths
HealthScore(avg) ==
    IF avg >= 150 THEN "EXCELLENT"
    ELSE IF avg >= 50 THEN "GOOD"
    ELSE IF avg >= -50 THEN "MODERATE"
    ELSE "CRITICAL"

HealthMetrics(bd, sd, ud, fa, supply) ==
    LET total_staked == bd.balance_tokens
        staking_flow == sd.total_estimated_stake_amount
        unstaking_flow == ud.total_estimated_unstake_amount
        net_flow     == fa.comparison_metrics.net_amount
        factors      == HealthFactors(bd, ud, fa)
    IN  [total_supply       |-> supply,
         total_staked       |-> total_staked,
         staking_percentage |-> bd.percentage_of_supply,
         flow_metrics |->
            [total_staking_flow   |-> staking_flow,
             total_unstaking_flow |-> unstaking_flow,
             net_flow             |-> net_flow,
             staking_flow_percentage        |-> StakedPct(staking_flow, total_staked),
             unstaking_incidence_percentage |-> StakedPct(unstaking_flow, total_staked),
             net_flow_percentage            |-> StakedPct(net_flow, total_staked)],
         trend_analysis |->
            [direction |-> fa.trend_analysis.trend,
             score     |-> fa.trend_analysis.trend_score],
         health_assessment |->
            [health_score   |-> HealthScore(AverageScore(factors)),
             health_factors |-> factors,
             average_score  |-> AverageScore(factors)]]

NoHealth ==
    [total_supply |-> 0, total_staked |-> 0, staking_percentage |-> 0,
     flow_metrics |->
        [total_staking_flow |-> Whole(0), total_unstaking_flow |-> Whole(0),
         net_flow |-> Whole(0),
         staking_flow_percentage |-> 0, unstaking_incidence_percentage |-> 0,
         net_flow_percentage |-> 0],
     trend_analysis |-> [direction |-> "none", score |-> 0],
     health_assessment |->
        [health_score |-> "none", health_factors |-> <<>>, average_score |-> 0]]

----------------------------------------------------------------------------
(* The ledger and its transactions *)

StakingAddress == "0xStAkInG"     \* the staking contract as the caller spells it
OtherAddress   == "0xother"
SenderA == "0x000000000000000000000000000000000050b0c4"
SenderB == "0x00000000000000000000000000000000005c53ea"

\* str.lower() on the addresses of the model
Lower(a) == IF a = "0xStAkInG" THEN "0xstaking" ELSE a

\* int(h, 16) for a hexadecimal string given by its digits after "0x"
RECURSIVE HexToInt(_)
HexToInt(h) == IF h = <<>> THEN 0 ELSE 16 * HexToInt(SubSeq(h, 1, Len(h) - 1)) + h[Len(h)]

\* the hexadecimal digits of a natural number (the ledger's encoding)
RECURSIVE ToHex(_)
ToHex(v) == IF v < 16 THEN <<v>> ELSE Append(ToHex(v \div 16), v % 16)

\* input_data.startswith(sig): the call data is its selector followed by arguments
StartsWith(input, sig) == Len(input) >= 1 /\ input[1] = sig

\* estimate_transaction_amount: the value drawn from the generator seeded with
\* the last 8 hex digits of the sender, for the two senders of the model:
\* 38719.00000812081, 55729.00000831573, 61483.00001173006, 86053.0000120116
EstimateTransactionAmount(tx_type, address) ==
    CASE tx_type = "stake" /\ address = SenderA   -> [tokens |-> 38719, frac |-> 1116116]
      [] tx_type = "stake" /\ address = SenderB   -> [tokens |-> 55729, frac |-> 1142905]
      [] tx_type = "unstake" /\ address = SenderA -> [tokens |-> 61483, frac |-> 1612167]
      [] tx_type = "unstake" /\ address = SenderB -> [tokens |-> 86053, frac |-> 1650862]

RECURSIVE Concat(_)
Concat(qs) == IF qs = <<>> THEN <<>> ELSE Head(qs) \o Concat(Tail(qs))

\* number of values of range(from_block, to_block, step)
RangeLen(from_block, to_block, step) ==
    IF to_block > from_block THEN (to_block - from_block + step - 1) \div step ELSE 0

\* the outcome of the ledger requests of one phase: head tells whether the
\* request for the latest block is answered (with status 200 and a result),
\* stake the numbers of the blocks that the requests of the stake scan or of
\* a weekly stake count ask for in vain (the request raises, or its answer
\* is no 200 or holds no result), unstake those of the unstake scan or of a
\* weekly unstake count
AllAnswered == [head |-> TRUE, stake |-> {}, unstake |-> {}]

\* get_latest_block_number: the head of the ledger, or 0 without an answer
LatestBlockNumber(net) == IF net.head THEN head ELSE 0

\* the blocks of range(from_block, to_block, step) that carry transactions and
\* that get_block_with_transactions returns, in the order the loop fetches
\* them; for a block number in lost it returns None and the loop goes on
FetchedBlocks(from_block, to_block, step, lost) ==
    SelectSeq(chain, LAMBDA b : /\ from_block <= b.number
                                /\ b.number < to_block
                                /\ (b.number - from_block) % step = 0
                                /\ b.number \notin lost)

\* JSON null in a text field of a transaction, and as its call data
Null      == "null"
NullInput == <<Null>>

\* a sender whose last 8 characters are no hexadecimal number
BadSender == "0xnot-an-address"

\* to_address == self.staking_contract and input_data.startswith(sig) raises
\* AttributeError for call data that is null, once the destination matches
MatchRaises(tx, contract) ==
    tx.to # "" /\ Lower(tx.to) = contract /\ tx.input = NullInput

\* MatchingSignature comparing the destination as it is written
MatchingSignature_CaseSensitive(tx, contract, sigs) ==
    IF tx.to = "" THEN 0
    ELSE LET hits == {i \in 1..Len(sigs) :
                        tx.to = contract /\ StartsWith(tx.input, sigs[i])}
         IN  IF hits = {} THEN 0 ELSE CHOOSE i \in hits : \A j \in hits : i <= j

\* the first signature of sigs the transaction matches, 0 when it matches none
MatchingSignature(tx, contract, sigs) ==
    IF tx.to = "" THEN 0
    ELSE LET hits == {i \in 1..Len(sigs) :
                        Lower(tx.to) = contract /\ StartsWith(tx.input, sigs[i])}
         IN  IF hits = {} THEN 0 ELSE CHOOSE i \in hits : \A j \in hits : i <= j

----------------------------------------------------------------------------
(* analyze_stake_transaction / analyze_unstake_transaction *)

\* the try block of analyze_(un)stake_transaction fails, and None is returned,
\* for a null sender (None.lower()), for a block timestamp "0x" without
\* digits (int(.., 16)) and for a sender that seeds no generator
AnalysisFails(tx, block) ==
    \/ tx.from = Null
    \/ block.timestamp = <<>>
    \/ Lower(tx.from) = BadSender

\* a time zone: the offset of its local time from UTC, in seconds, is before
\* up to the instant switch and after from then on
UtcZone == [switch |-> 0, before |-> 0, after |-> 0]

\* datetime.fromtimestamp(t) and, for the instant the clock shows,
\* datetime.now(): the naive local time in the zone tz, in seconds
LocalTime(tz, t) == t + (IF t < tz.switch THEN tz.before ELSE tz.after)

AnalyzeStakeTransaction(tx, block, signature, tz) ==
    [address          |-> Lower(tx.from),
     transaction_hash |-> tx.hash,
     timestamp        |-> LocalTime(tz, HexToInt(block.timestamp)),
     signature        |-> signature,
     estimated_amount |-> EstimateTransactionAmount("stake", Lower(tx.from)),
     type             |-> "stake"]

UnstakeStatus(days_remaining) == IF days_remaining > 0 THEN "active" ELSE "expired"

\* t is the instant of the call, tz the zone of the host: the expiry is 14
\* days later on the local calendar, days_remaining the whole days (floor)
\* from the local time of the call to it
AnalyzeUnstakeTransaction(tx, block, signature, t, tz) ==
    LET timestamp      == LocalTime(tz, HexToInt(block.timestamp))
        expiry_date    == timestamp + UnlockDays * SecondsPerDay
        days_remaining == (expiry_date - LocalTime(tz, t)) \div SecondsPerDay
    IN  [address          |-> Lower(tx.from),
         transaction_hash |-> tx.hash,
         timestamp        |-> timestamp,
         expiry_date      |-> expiry_date,
         days_remaining   |-> days_remaining,
         signature        |-> signature,
         estimated_amount |-> EstimateTransactionAmount("unstake", Lower(tx.from)),
         type             |-> "unstake",
         status           |-> UnstakeStatus(days_remaining)]

----------------------------------------------------------------------------
(* analyze_staking_events / analyze_unstaking_events: the window scan *)

FromBlock(current_block, days) ==
    IF current_block - days * BlocksPerDay > 0
    THEN current_block - days * BlocksPerDay ELSE 0

BlockStakeEvents(block, contract) ==
    Concat([i \in 1..Len(block.transactions) |->
        LET tx == block.transactions[i]
            k  == MatchingSignature(tx, contract, StakeSignatures)
        IN  IF k = 0 \/ AnalysisFails(tx, block) THEN <<>>
            ELSE <<AnalyzeStakeTransaction(tx, block, StakeSignatures[k], zone)>>])

\* the calls of analyze_unstake_transaction that the transactions of one
\* fetched block cause, in the order of the block
BlockUnstakeCalls(block, contract) ==
    Concat([i \in 1..Len(block.transactions) |->
        LET tx == block.transactions[i]
            k  == MatchingSignature(tx, contract, UnstakeSignatures)
        IN  IF k = 0 THEN <<>>
            ELSE <<[tx |-> tx, block |-> block, signature |-> UnstakeSignatures[k]]>>])

\* the fetched blocks of the window on which the scan loop raises
RaisingBlocks(current_block, days, contract, lost) ==
    SelectSeq(FetchedBlocks(FromBlock(current_block, days), current_block, ScanStep, lost),
              LAMBDA b : \E j \in 1..Len(b.transactions) :
                            MatchRaises(b.transactions[j], contract))

\* block requests of one window scan: the whole range, or the range up to the
\* block on which the loop raises
ScanReads(current_block, days, contract, lost) ==
    LET raising == RaisingBlocks(current_block, days, contract, lost)
        from_block == FromBlock(current_block, days)
    IN  IF raising = <<>> THEN RangeLen(from_block, current_block, ScanStep)
        ELSE (raising[1].number - from_block) \div ScanStep + 1

ScanStakeEvents(current_block, days, contract, lost) ==
    LET blocks == FetchedBlocks(FromBlock(current_block, days), current_block, ScanStep, lost)
    IN  Concat([i \in 1..Len(blocks) |-> BlockStakeEvents(blocks[i], contract)])

\* the calls of analyze_unstake_transaction of one window scan, in the order
\* the loop makes them
ScanUnstakeCalls(current_block, days, contract, lost) ==
    LET blocks == FetchedBlocks(FromBlock(current_block, days), current_block, ScanStep, lost)
    IN  Concat([i \in 1..Len(blocks) |-> BlockUnstakeCalls(blocks[i], contract)])

\* the events of one window scan.  The loop waits for the ledger between two
\* blocks and every call reads datetime.now() itself: clock[k] is what the
\* clock shows during the k-th call
ScanUnstakeEvents(current_block, days, contract, clock, lost) ==
    LET calls == ScanUnstakeCalls(current_block, days, contract, lost)
    IN  Concat([k \in 1..Len(calls) |->
            IF AnalysisFails(calls[k].tx, calls[k].block) THEN <<>>
            ELSE <<AnalyzeUnstakeTransaction(calls[k].tx, calls[k].block,
                                             calls[k].signature, clock[k], zone)>>])

\* total_amount += event.get('estimated_amount', 0), from 0
TotalAmount(events) == AmtSum([i \in 1..Len(events) |-> events[i].estimated_amount], Whole(0))

UniqueAddresses(events) == Cardinality({events[i].address : i \in 1..Len(events)})

StakingData(events, current_block, days) ==
    [period_days        |-> days,
     blocks_scanned     |-> ScanStep * RangeLen(FromBlock(current_block, days), current_block, ScanStep),
     stake_events_found |-> Len(events),
     unique_stakers     |-> UniqueAddresses(events),
     total_estimated_stake_amount |-> TotalAmount(events),
     stake_events       |-> events]

UnstakingData(events, current_block, days) ==
    [period_days          |-> days,
     blocks_scanned       |-> ScanStep * RangeLen(FromBlock(current_block, days), current_block, ScanStep),
     unstake_events_found |-> Len(events),
     unique_unstakers     |-> UniqueAddresses(events),
     total_estimated_unstake_amount |-> TotalAmount(events),
     unstake_events       |-> events]

NoStaking ==
    [period_days |-> 0, blocks_scanned |-> 0, stake_events_found |-> 0,
     unique_stakers |-> 0, total_estimated_stake_amount |-> Whole(0), stake_events |-> <<>>]

NoUnstaking ==
    [period_days |-> 0, blocks_scanned |-> 0, unstake_events_found |-> 0,
     unique_unstakers |-> 0, total_estimated_unstake_amount |-> Whole(0),
     unstake_events |-> <<>>]

----------------------------------------------------------------------------
(* analyze_weekly_flows / count_events_in_period *)

CountEventsInPeriod(from_block, to_block, sigs, contract, lost) ==
    LET blocks == FetchedBlocks(from_block, to_block, CountStep, lost)
    IN  SumSeq([i \in 1..Len(blocks) |->
            Cardinality({j \in 1..Len(blocks[i].transactions) :
                MatchingSignature(blocks[i].transactions[j], contract, sigs) # 0})])

Min(a, b) == IF a < b THEN a ELSE b

\* WeeksOf without the cap of four weeks
WeeksOf_Uncapped(total_days) ==
    IF total_days < DaysPerWeek THEN 0 ELSE total_days \div DaysPerWeek

WeeksOf(total_days) ==
    IF total_days < DaysPerWeek THEN 0 ELSE Min(MaxWeeks, total_days \div DaysPerWeek)

\* WeeklyFlows with the weeks labelled in the order they are computed
WeeklyFlows_Ascending(total_days, current_block, contract, net) ==
    [w \in 1..WeeksOf(total_days) |->
        LET week        == w - 1
            week_start  == current_block - (week + 1) * DaysPerWeek * BlocksPerDay
            week_end    == current_block - week * DaysPerWeek * BlocksPerDay
            week_stakes == CountEventsInPeriod(week_start, week_end, StakeSignatures,
                                               contract, net.stake)
            week_unstakes == CountEventsInPeriod(week_start, week_end, UnstakeSignatures,
                                                 contract, net.unstake)
        IN  [week           |-> week + 1,
             stake_events   |-> week_stakes,
             unstake_events |-> week_unstakes,
             net_events     |-> week_stakes - week_unstakes]]

WeeklyFlows(total_days, current_block, contract, net) ==
    [w \in 1..WeeksOf(total_days) |->
        LET week        == w - 1
            week_start  == current_block - (week + 1) * DaysPerWeek * BlocksPerDay
            week_end    == current_block - week * DaysPerWeek * BlocksPerDay
            week_stakes == CountEventsInPeriod(week_start, week_end, StakeSignatures,
                                               contract, net.stake)
            week_unstakes == CountEventsInPeriod(week_start, week_end, UnstakeSignatures,
                                                 contract, net.unstake)
        IN  [week           |-> WeeksOf(total_days) - week,
             stake_events   |-> week_stakes,
             unstake_events |-> week_unstakes,
             net_events     |-> week_stakes - week_unstakes]]

\* ledger requests of analyze_weekly_flows
WeeklyReads(total_days) ==
    IF WeeksOf(total_days) = 0 THEN 0
    ELSE 1 + WeeksOf(total_days) * 2 * RangeLen(0, DaysPerWeek * BlocksPerDay, CountStep)

\* the fetched blocks of the w-th week back from the head (1 is the most
\* recent) on which a count loop raises
RaisingCount(w, current_block, contract, lost) ==
    SelectSeq(FetchedBlocks(current_block - w * DaysPerWeek * BlocksPerDay,
                            current_block - (w - 1) * DaysPerWeek * BlocksPerDay,
                            CountStep, lost),
              LAMBDA b : \E j \in 1..Len(b.transactions) :
                            MatchRaises(b.transactions[j], contract))

\* the weeks in one of whose two count loops the match raises
RaisingWeeks(total_days, current_block, contract, net) ==
    {w \in 1..WeeksOf(total_days) :
        \/ RaisingCount(w, current_block, contract, net.stake) # <<>>
        \/ RaisingCount(w, current_block, contract, net.unstake) # <<>>}

\* ledger requests of analyze_weekly_flows up to the block on which the first
\* count loop raises: the stake count of the week, or its unstake count
\* after the whole stake count
WeeklyReadsUntilRaise(total_days, current_block, contract, net) ==
    LET raising    == RaisingWeeks(total_days, current_block, contract, net)
        w          == CHOOSE x \in raising : \A y \in raising : x <= y
        week_start == current_block - w * DaysPerWeek * BlocksPerDay
        stakes     == RaisingCount(w, current_block, contract, net.stake)
        unstakes   == RaisingCount(w, current_block, contract, net.unstake)
        count      == RangeLen(0, DaysPerWeek * BlocksPerDay, CountStep)
    IN  1 + (w - 1) * 2 * count
          + (IF stakes # <<>> THEN (stakes[1].number - week_start) \div CountStep + 1
             ELSE count + (unstakes[1].number - week_start) \div CountStep + 1)

----------------------------------------------------------------------------
(* calculate_selling_pressure_timeline *)

\* the dictionary pressure_by_day after the loop over the events: one entry
\* for every day from 0 to PressureDays that an event falls on, its amount the
\* running sum of the amounts of the events of that day in the order of the
\* list, its count their number
PressureByDay(events) ==
    LET days == {d \in 0..PressureDays : \E i \in 1..Len(events) : events[i].days_remaining = d}
    IN  [day \in days |->
            LET on == SelectSeq(events, LAMBDA e : e.days_remaining = day)
            IN  [day |-> day, amount |-> TotalAmount(on), count |-> Len(on)]]

\* sorted(d.values(), key = day)
RECURSIVE SortedByDay(_)
SortedByDay(d) ==
    IF DOMAIN d = {} THEN <<>>
    ELSE LET first == CHOOSE k \in DOMAIN d : \A j \in DOMAIN d : k <= j
         IN  <<d[first]>> \o SortedByDay([k \in DOMAIN d \ {first} |-> d[k]])

\* the timeline over the active events only
CalculateSellingPressureTimeline_ActiveOnly(unstake_events) ==
    SortedByDay(PressureByDay(SelectSeq(unstake_events, LAMBDA e : e.status = "active")))

\* the timeline with the last day of the unlock period left out
CalculateSellingPressureTimeline_Short(unstake_events) ==
    SortedByDay(PressureByDay(
        SelectSeq(unstake_events, LAMBDA e : e.days_remaining < PressureDays)))

CalculateSellingPressureTimeline(unstake_events) ==
    SortedByDay(PressureByDay(unstake_events))

----------------------------------------------------------------------------
(* calculate_projections_and_pressure *)

\* (total_pressure / total_staked) * 100 against the bounds 1, 3 and 7
PressureIntensity(total_pressure, total_staked) ==
    IF total_staked <= 0 THEN "LOW"
    ELSE IF AmtPctCmp(total_pressure, total_staked, 1) < 0 THEN "LOW"
    ELSE IF AmtPctCmp(total_pressure, total_staked, 3) < 0 THEN "MODERATE"
    ELSE IF AmtPctCmp(total_pressure, total_staked, 7) < 0 THEN "HIGH"
    ELSE "CRITICAL"

\* Projections with the total taken over the buckets the report shows
Projections_ShownTotal(fa, bd, ud) ==
    LET total_staked   == bd.balance_tokens
        projected_stake   == fa.daily_rates.daily_stake_amount * ProjectionDays
        projected_unstake == fa.daily_rates.daily_unstake_amount * ProjectionDays
        projected_net     == fa.daily_rates.daily_net_amount * ProjectionDays
        timeline       == CalculateSellingPressureTimeline(ud.unstake_events)
        total_pressure == AmtSum([i \in 1..Min(TimelineShown, Len(timeline)) |->
                                    timeline[i].amount], Whole(0))
        intensity      == PressureIntensity(total_pressure, total_staked)
    IN  [projections_30_days |->
            [projected_stake_amount   |-> projected_stake,
             projected_unstake_amount |-> projected_unstake,
             projected_net_flow       |-> projected_net,
             projected_tvl_change_percentage |-> StakedPct(Whole(projected_net), total_staked)],
         selling_pressure |->
            [total_pressure_14_days        |-> total_pressure,
             pressure_percentage_of_staked |-> StakedPct(total_pressure, total_staked),
             pressure_intensity            |-> intensity,
             pressure_timeline             |-> SubSeq(timeline, 1, Min(TimelineShown, Len(timeline)))],
         risk_assessment |->
            [liquidity_risk |-> IF intensity \in {"HIGH", "CRITICAL"} THEN "High"
                                ELSE IF intensity = "MODERATE" THEN "Medium" ELSE "Low",
             growth_sustainability |->
                IF total_staked > 0 /\ projected_net > 0 THEN "Sustainable"
                ELSE IF total_staked > 0 /\ 10 * projected_net < -total_staked THEN "At risk"
                ELSE "Stable",
             market_impact |->
                IF total_staked > 0 /\ AmtPctCmp(total_pressure, total_staked, 5) > 0
                THEN "Significant"
                ELSE IF total_staked > 0 /\ AmtPctCmp(total_pressure, total_staked, 2) > 0
                THEN "Moderate"
                ELSE "Limited"]]

Projections(fa, bd, ud) ==
    LET total_staked   == bd.balance_tokens
        projected_stake   == fa.daily_rates.daily_stake_amount * ProjectionDays
        projected_unstake == fa.daily_rates.daily_unstake_amount * ProjectionDays
        projected_net     == fa.daily_rates.daily_net_amount * ProjectionDays
        timeline       == CalculateSellingPressureTimeline(ud.unstake_events)
        total_pressure == AmtSum([i \in 1..Len(timeline) |-> timeline[i].amount], Whole(0))
        intensity      == PressureIntensity(total_pressure, total_staked)
    IN  [projections_30_days |->
            [projected_stake_amount   |-> projected_stake,
             projected_unstake_amount |-> projected_unstake,
             projected_net_flow       |-> projected_net,
             projected_tvl_change_percentage |-> StakedPct(Whole(projected_net), total_staked)],
         selling_pressure |->
            [total_pressure_14_days        |-> total_pressure,
             pressure_percentage_of_staked |-> StakedPct(total_pressure, total_staked),
             pressure_intensity            |-> intensity,
             pressure_timeline             |-> SubSeq(timeline, 1, Min(TimelineShown, Len(timeline)))],
         risk_assessment |->
            [liquidity_risk |-> IF intensity \in {"HIGH", "CRITICAL"} THEN "High"
                                ELSE IF intensity = "MODERATE" THEN "Medium" ELSE "Low",
             growth_sustainability |->
                IF total_staked > 0 /\ projected_net > 0 THEN "Sustainable"
                ELSE IF total_staked > 0 /\ 10 * projected_net < -total_staked THEN "At risk"
                ELSE "Stable",
             market_impact |->
                IF total_staked > 0 /\ AmtPctCmp(total_pressure, total_staked, 5) > 0
                THEN "Significant"
                ELSE IF total_staked > 0 /\ AmtPctCmp(total_pressure, total_staked, 2) > 0
                THEN "Moderate"
                ELSE "Limited"]]

NoProjections ==
    [projections_30_days |->
        [projected_stake_amount |-> 0, projected_unstake_amount |-> 0,
         projected_net_flow |-> 0, projected_tvl_change_percentage |-> 0],
     selling_pressure |->
        [total_pressure_14_days |-> Whole(0), pressure_percentage_of_staked |-> 0,
         pressure_intensity |-> "none", pressure_timeline |-> <<>>],
     risk_assessment |->
        [liquidity_risk |-> "none", growth_sustainability |-> "none", market_impact |-> "none"]]

----------------------------------------------------------------------------
(* generate_executive_summary / get_priority_actions *)

\* OverallStatus with the second row asking for a positive net flow
OverallStatus_PositiveFlow(health_score, trend, net_flow_percentage, pressure_intensity) ==
    IF /\ health_score = "EXCELLENT"
       /\ trend \in {"GROWTH", "STRONG GROWTH"}
       /\ net_flow_percentage > 0
    THEN "EXCELLENT"
    ELSE IF health_score \in {"EXCELLENT", "GOOD"} /\ net_flow_percentage > 0
    THEN "GOOD"
    ELSE IF health_score \in {"GOOD", "MODERATE"} /\ net_flow_percentage > -500
    THEN "STABLE"
    ELSE IF health_score = "MODERATE" \/ pressure_intensity \in {"HIGH", "CRITICAL"}
    THEN "ATTENTION"
    ELSE "CRITICAL"

OverallStatus(health_score, trend, net_flow_percentage, pressure_intensity) ==
    IF /\ health_score = "EXCELLENT"
       /\ trend \in {"GROWTH", "STRONG GROWTH"}
       /\ net_flow_percentage > 0
    THEN "EXCELLENT"
    ELSE IF health_score \in {"EXCELLENT", "GOOD"} /\ net_flow_percentage >= 0
    THEN "GOOD"
    ELSE IF health_score \in {"GOOD", "MODERATE"} /\ net_flow_percentage > -500
    THEN "STABLE"
    ELSE IF health_score = "MODERATE" \/ pressure_intensity \in {"HIGH", "CRITICAL"}
    THEN "ATTENTION"
    ELSE "CRITICAL"

PriorityActions(status, net_flow, pressure_percentage) ==
    LET actions ==
            (IF status = "CRITICAL"
             THEN <<"emergency measures", "stakeholder communication", "economic incentives">>
             ELSE <<>>)
            \o (IF net_flow < -500
                THEN <<"analyze negative flow", "retention campaigns">> ELSE <<>>)
            \o (IF pressure_percentage > 500
                THEN <<"prepare liquidity", "market monitoring">> ELSE <<>>)
    IN  IF actions = <<>> THEN <<"continue regular monitoring">> ELSE actions

ExecutiveSummary(hm, pr) ==
    LET status == OverallStatus(hm.health_assessment.health_score,
                                hm.trend_analysis.direction,
                                hm.flow_metrics.net_flow_percentage,
                                pr.selling_pressure.pressure_intensity)
    IN  [overall_status |-> status,
         next_review_recommended |->
            IF status = "CRITICAL" THEN "24 hours"
            ELSE IF status = "ATTENTION" THEN "72 hours" ELSE "7 days",
         priority_actions |->
            PriorityActions(status, hm.flow_metrics.net_flow_percentage,
                            pr.selling_pressure.pressure_percentage_of_staked)]

NoSummary ==
    [overall_status |-> "none", next_review_recommended |-> "none", priority_actions |-> <<>>]

----------------------------------------------------------------------------
(* The environment: the ledger grows and the clock advances between runs *)

TxStakeA   == [hash |-> 0, from |-> SenderA, to |-> StakingAddress,
               input |-> <<"0xa694fc3a", "args">>]
TxUnstakeA == [hash |-> 0, from |-> SenderA, to |-> "0xstaking",
               input |-> <<"0xf48355b9">>]
TxUnstakeB == [hash |-> 0, from |-> SenderB, to |-> "0xstaking",
               input |-> <<"0x2e1a7d4d", "args">>]
TxOther    == [hash |-> 0, from |-> SenderB, to |-> OtherAddress,
               input |-> <<"0xa694fc3a", "args">>]
TxUnknown  == [hash |-> 0, from |-> SenderA, to |-> "0xstaking",
               input |-> <<"0xdeadbeef">>]
TxCreate   == [hash |-> 0, from |-> SenderA, to |-> "", input |-> <<"0x60806040">>]

\* the blocks the ledger may produce: their transactions, and how far the
\* block timestamp is ahead of the analysing host's clock
BlockKinds ==
    {[ahead |-> 0,             transactions |-> <<TxCreate, TxStakeA, TxOther>>],
     [ahead |-> 0,             transactions |-> <<TxUnstakeA, TxUnknown, TxUnstakeB>>],
     [ahead |-> SecondsPerDay, transactions |-> <<TxUnstakeB>>]}

TickSeconds == 15 * (SecondsPerDay \div 2)

MineBlock(kind) ==
    /\ pc = "idle"
    /\ Len(chain) < MaxBlocks
    /\ head' = head + ScanStep
    /\ chain' = Append(chain,
            [number       |-> head + ScanStep,
             timestamp    |-> ToHex(now + kind.ahead),
             transactions |-> [i \in 1..Len(kind.transactions) |->
                                [kind.transactions[i] EXCEPT !.hash = 10 * (head + ScanStep) + i]]])
    /\ UNCHANGED <<zone, pc, run_days, run_supply, scan_head, staking_contract, total_supply, actual_staked_balance,
                   token_balance, now, ledger_reads, balance_data, staking_data,
                   unstaking_data, flow_analysis, health_metrics, projections,
                   executive_summary>>

Tick ==
    /\ pc = "idle"
    /\ now < MaxTicks * TickSeconds
    /\ now' = now + TickSeconds
    /\ UNCHANGED <<zone, pc, run_days, run_supply, scan_head, staking_contract, total_supply, actual_staked_balance,
                   head, chain, token_balance, ledger_reads, balance_data, staking_data,
                   unstaking_data, flow_analysis, health_metrics, projections,
                   executive_summary>>

\* malformed transactions: null sender, a sender that is no address, null
\* destination, absent call data, null call data
TxNullFrom  == [hash |-> 0, from |-> Null, to |-> "0xstaking",
                input |-> <<"0xa694fc3a", "args">>]
TxBadSender == [hash |-> 0, from |-> BadSender, to |-> "0xstaking",
                input |-> <<"0x2e1a7d4d", "args">>]
TxNullTo    == [hash |-> 0, from |-> SenderA, to |-> "", input |-> <<"0xa694fc3a">>]
TxNoInput   == [hash |-> 0, from |-> SenderA, to |-> "0xstaking", input |-> <<>>]
TxNullInputOther == [hash |-> 0, from |-> SenderA, to |-> OtherAddress, input |-> NullInput]
TxNullInput == [hash |-> 0, from |-> SenderB, to |-> StakingAddress, input |-> NullInput]

\* the malformed blocks the ledger may produce; a block that is not stamped
\* carries the timestamp "0x"
FaultyKinds ==
    {[stamped |-> FALSE, transactions |-> <<TxStakeA, TxUnstakeB>>],
     [stamped |-> TRUE,  transactions |-> <<TxNullFrom, TxStakeA, TxBadSender, TxNullTo,
                                            TxNoInput, TxNullInputOther, TxUnstakeA>>],
     [stamped |-> TRUE,  transactions |-> <<TxStakeA, TxNullInput>>]}

MineFaultyBlock(kind) ==
    /\ pc = "idle"
    /\ Len(chain) < MaxBlocks
    /\ head' = head + ScanStep
    /\ chain' = Append(chain,
            [number       |-> head + ScanStep,
             timestamp    |-> IF kind.stamped THEN ToHex(now) ELSE <<>>,
             transactions |-> [i \in 1..Len(kind.transactions) |->
                                [kind.transactions[i] EXCEPT !.hash = 10 * (head + ScanStep) + i]]])
    /\ UNCHANGED <<zone, pc, run_days, run_supply, scan_head, staking_contract, total_supply, actual_staked_balance,
                   token_balance, now, ledger_reads, balance_data, staking_data,
                   unstaking_data, flow_analysis, health_metrics, projections,
                   executive_summary>>

OffStrideKinds ==
    {[ahead |-> 0, transactions |-> <<TxStakeA, TxUnstakeB>>],
     [ahead |-> 0, transactions |-> <<TxUnstakeA, TxNullInput>>]}

\* the ledger produces a block half a scan step after its head
MineOffStride(kind) ==
    /\ pc = "idle"
    /\ Len(chain) < MaxBlocks
    /\ head' = head + ScanStep \div 2
    /\ chain' = Append(chain,
            [number       |-> head + ScanStep \div 2,
             timestamp    |-> ToHex(now + kind.ahead),
             transactions |-> [i \in 1..Len(kind.transactions) |->
                                [kind.transactions[i] EXCEPT !.hash = 10 * (head + ScanStep \div 2) + i]]])
    /\ UNCHANGED <<zone, pc, run_days, run_supply, scan_head, staking_contract, total_supply, actual_staked_balance,
                   token_balance, now, ledger_reads, balance_data, staking_data,
                   unstaking_data, flow_analysis, health_metrics, projections,
                   executive_summary>>

----------------------------------------------------------------------------
(* run_complete_analysis, one action per phase *)

\* no scan of the run has asked for the latest block
NoScan == [staking |-> 0, unstaking |-> 0, weekly |-> 0]

DaysChoices     == {0, 14}
SupplyChoices   == {0, 3000000}        \* 0: the argument is not given
BalanceReadings == {-1, 0, 1000000}    \* -1: the balance call raises, 0: empty result

\* entry of run_complete_analysis up to phase 1
StartRun(contract, days, supply) ==
    /\ pc = "idle"
    /\ pc' = "balance"
    /\ staking_contract' = Lower(contract)
    /\ total_supply' = IF supply # 0 THEN supply ELSE total_supply
    /\ run_days' = days
    /\ run_supply' = supply
    /\ scan_head' = NoScan
    /\ ledger_reads' = 0
    /\ balance_data' = NoBalance
    /\ staking_data' = NoStaking
    /\ unstaking_data' = NoUnstaking
    /\ flow_analysis' = NoFlow
    /\ health_metrics' = NoHealth
    /\ projections' = NoProjections
    /\ executive_summary' = NoSummary
    /\ UNCHANGED <<zone, actual_staked_balance, head, chain, token_balance, now>>

\* phase 1: get_total_staked_balance
GetTotalStakedBalance ==
    /\ pc = "balance"
    /\ \E reading \in BalanceReadings :
        /\ token_balance' = reading
        /\ balance_data' = BalanceSnapshot(reading, total_supply)
        /\ actual_staked_balance' = BalanceSnapshot(reading, total_supply).balance_tokens
    /\ ledger_reads' = ledger_reads + 1
    /\ pc' = "staking"
    /\ UNCHANGED <<zone, run_days, run_supply, scan_head, staking_contract, total_supply, head, chain, now,
                   staking_data, unstaking_data, flow_analysis, health_metrics,
                   projections, executive_summary>>

\* phase 2: analyze_staking_events; the daily averages divide by days, which
\* raises ZeroDivisionError after the scan when days is 0, and the scan loop
\* itself raises on a transaction to the contract whose call data is null.
\* net is the outcome of the requests of the phase
AnalyzeStakingEvents(net) ==
    /\ pc = "staking"
    /\ scan_head' = [scan_head EXCEPT !.staking = LatestBlockNumber(net)]
    /\ ledger_reads' = ledger_reads + 1
            + ScanReads(LatestBlockNumber(net), run_days, staking_contract, net.stake)
    /\ IF \/ run_days = 0
          \/ RaisingBlocks(LatestBlockNumber(net), run_days, staking_contract, net.stake) # <<>>
       THEN /\ pc' = "error"
            /\ UNCHANGED staking_data
       ELSE /\ pc' = "unstaking"
            /\ staking_data' =
                 StakingData(ScanStakeEvents(LatestBlockNumber(net), run_days,
                                             staking_contract, net.stake),
                             LatestBlockNumber(net), run_days)
    /\ UNCHANGED <<zone, run_days, run_supply, staking_contract, total_supply, actual_staked_balance, head,
                   chain, token_balance, now, balance_data, unstaking_data, flow_analysis,
                   health_metrics, projections, executive_summary>>

\* the clock reads of the unstake scan of this state: one for every call of
\* analyze_unstake_transaction, and the clock when the scan returns
UnstakeReads(net) ==
    Len(ScanUnstakeCalls(LatestBlockNumber(net), run_days, staking_contract, net.unstake)) + 1

\* the clock stands still while the scan runs
SteadyClock(t, reads) == {[k \in 1..reads |-> t]}

\* phase 3: analyze_unstaking_events.  The scan is no single instant: time
\* passes while it waits for the blocks, so the course of the clock during
\* the scan is an input of the phase: clock[k] is the reading of the k-th
\* call of analyze_unstake_transaction, and the last entry is the clock when
\* the scan returns.  net is the outcome of the requests of the phase
AnalyzeUnstakingEvents(clock, net) ==
    /\ pc = "unstaking"
    /\ Len(clock) = UnstakeReads(net)
    /\ now <= clock[1]
    /\ \A k \in 1..(Len(clock) - 1) : clock[k] <= clock[k + 1]
    /\ now' = clock[Len(clock)]
    /\ scan_head' = [scan_head EXCEPT !.unstaking = LatestBlockNumber(net)]
    /\ ledger_reads' = ledger_reads + 1
            + ScanReads(LatestBlockNumber(net), run_days, staking_contract, net.unstake)
    /\ IF \/ run_days = 0
          \/ RaisingBlocks(LatestBlockNumber(net), run_days, staking_contract, net.unstake) # <<>>
       THEN /\ pc' = "error"
            /\ UNCHANGED unstaking_data
       ELSE /\ pc' = "flow"
            /\ unstaking_data' =
                 UnstakingData(ScanUnstakeEvents(LatestBlockNumber(net), run_days,
                                                 staking_contract, clock, net.unstake),
                               LatestBlockNumber(net), run_days)
    /\ UNCHANGED <<zone, run_days, run_supply, staking_contract, total_supply, actual_staked_balance, head,
                   chain, token_balance, balance_data, staking_data, flow_analysis,
                   health_metrics, projections, executive_summary>>

\* phase 4: analyze_staking_flows (with analyze_weekly_flows, which asks for
\* the latest block and counts the weeks); net is the outcome of its requests
AnalyzeStakingFlows(net) ==
    /\ pc = "flow"
    /\ scan_head' = IF WeeksOf(staking_data.period_days) > 0
                    THEN [scan_head EXCEPT !.weekly = LatestBlockNumber(net)] ELSE scan_head
    /\ IF staking_data.period_days = 0
       THEN /\ pc' = "error"
            /\ UNCHANGED <<flow_analysis, ledger_reads>>
       ELSE IF RaisingWeeks(staking_data.period_days, LatestBlockNumber(net),
                            staking_contract, net) # {}
       THEN /\ pc' = "error"
            /\ ledger_reads' = ledger_reads +
                 WeeklyReadsUntilRaise(staking_data.period_days, LatestBlockNumber(net),
                                       staking_contract, net)
            /\ UNCHANGED flow_analysis
       ELSE /\ pc' = "health"
            /\ flow_analysis' =
                 FlowAnalysis(staking_data, unstaking_data, actual_staked_balance,
                              WeeklyFlows(staking_data.period_days, LatestBlockNumber(net),
                                          staking_contract, net))
            /\ ledger_reads' = ledger_reads + WeeklyReads(staking_data.period_days)
    /\ UNCHANGED <<zone, run_days, run_supply, staking_contract, total_supply, actual_staked_balance, head,
                   chain, token_balance, now, balance_data, staking_data, unstaking_data,
                   health_metrics, projections, executive_summary>>

\* phase 5: calculate_complete_health_metrics
CalculateCompleteHealthMetrics ==
    /\ pc = "health"
    /\ pc' = "projections"
    /\ health_metrics' =
         HealthMetrics(balance_data, staking_data, unstaking_data, flow_analysis, total_supply)
    /\ UNCHANGED <<zone, run_days, run_supply, scan_head, staking_contract, total_supply, actual_staked_balance, head,
                   chain, token_balance, now, ledger_reads, balance_data, staking_data,
                   unstaking_data, flow_analysis, projections, executive_summary>>

\* phase 6: calculate_projections_and_pressure
CalculateProjectionsAndPressure ==
    /\ pc = "projections"
    /\ pc' = "summary"
    /\ projections' = Projections(flow_analysis, balance_data, unstaking_data)
    /\ UNCHANGED <<zone, run_days, run_supply, scan_head, staking_contract, total_supply, actual_staked_balance, head,
                   chain, token_balance, now, ledger_reads, balance_data, staking_data,
                   unstaking_data, flow_analysis, health_metrics, executive_summary>>

\* the report is assembled: generate_executive_summary
GenerateExecutiveSummary ==
    /\ pc = "summary"
    /\ pc' = "done"
    /\ executive_summary' = ExecutiveSummary(health_metrics, projections)
    /\ UNCHANGED <<zone, run_days, run_supply, scan_head, staking_contract, total_supply, actual_staked_balance, head,
                   chain, token_balance, now, ledger_reads, balance_data, staking_data,
                   unstaking_data, flow_analysis, health_metrics, projections>>

----------------------------------------------------------------------------
(* The pipeline on a growing ledger *)

Init ==
    /\ pc = "idle"
    /\ run_days = 0
    /\ run_supply = 0
    /\ scan_head = NoScan
    /\ staking_contract = ""
    /\ total_supply = DefaultTotalSupply
    /\ actual_staked_balance = 0
    /\ head = 0
    /\ chain = <<>>
    /\ token_balance = 0
    /\ now = 0
    /\ zone = UtcZone
    /\ ledger_reads = 0
    /\ balance_data = NoBalance
    /\ staking_data = NoStaking
    /\ unstaking_data = NoUnstaking
    /\ flow_analysis = NoFlow
    /\ health_metrics = NoHealth
    /\ projections = NoProjections
    /\ executive_summary = NoSummary

Next ==
    \/ \E kind \in BlockKinds : MineBlock(kind)
    \/ Tick
    \/ \E days \in DaysChoices, supply \in SupplyChoices : StartRun(StakingAddress, days, supply)
    \/ GetTotalStakedBalance
    \/ AnalyzeStakingEvents(AllAnswered)
    \/ \E clock \in SteadyClock(now, UnstakeReads(AllAnswered)) :
          AnalyzeUnstakingEvents(clock, AllAnswered)
    \/ AnalyzeStakingFlows(AllAnswered)
    \/ CalculateCompleteHealthMetrics
    \/ CalculateProjectionsAndPressure
    \/ GenerateExecutiveSummary

Spec == Init /\ [][Next]_vars

----------------------------------------------------------------------------
(* The ledger grows while a run is in progress                              *)

\* the ledger produces a block between two requests for the latest block:
\* after the stake scan or after the unstake scan of the run
MineDuringRun(kind) ==
    /\ pc \in {"unstaking", "flow"}
    /\ Len(chain) < MaxBlocks
    /\ head' = head + ScanStep
    /\ chain' = Append(chain,
            [number       |-> head + ScanStep,
             timestamp    |-> ToHex(now + kind.ahead),
             transactions |-> [i \in 1..Len(kind.transactions) |->
                                [kind.transactions[i] EXCEPT !.hash = 10 * (head + ScanStep) + i]]])
    /\ UNCHANGED <<zone, pc, run_days, run_supply, scan_head, staking_contract, total_supply,
                   actual_staked_balance, token_balance, now, ledger_reads, balance_data,
                   staking_data, unstaking_data, flow_analysis, health_metrics, projections,
                   executive_summary>>

GrowingNext ==
    \/ \E kind \in BlockKinds : MineBlock(kind)
    \/ \E kind \in BlockKinds : MineDuringRun(kind)
    \/ StartRun(StakingAddress, 14, 0)
    \/ GetTotalStakedBalance
    \/ AnalyzeStakingEvents(AllAnswered)
    \/ \E clock \in SteadyClock(now, UnstakeReads(AllAnswered)) :
          AnalyzeUnstakingEvents(clock, AllAnswered)
    \/ AnalyzeStakingFlows(AllAnswered)
    \/ CalculateCompleteHealthMetrics
    \/ CalculateProjectionsAndPressure
    \/ GenerateExecutiveSummary

GrowingSpec == Init /\ [][GrowingNext]_vars

----------------------------------------------------------------------------
(* The clock advances while the unstake scan runs                           *)

\* what the clock may have gained at a reading of the scan: nothing, a
\* second, half an unlock period and more, a second more than the whole of
\* it, or a day more
ClockOffsets == {0, 1, TickSeconds, UnlockDays * SecondsPerDay + 1, 2 * TickSeconds}

\* the zones of the host: UTC, a zone that puts its clocks forward by an hour
\* on the eighth day of the ledger (02:00 local time, from 5 to 4 hours behind
\* UTC), and one that puts them back by an hour then (from 4 to 5 hours
\* behind UTC)
Zones ==
    {UtcZone,
     [switch |-> 7 * SecondsPerDay + 7 * 3600, before |-> -(5 * 3600), after |-> -(4 * 3600)],
     [switch |-> 7 * SecondsPerDay + 6 * 3600, before |-> -(4 * 3600), after |-> -(5 * 3600)]}

\* the courses of a clock that shows t when the scan begins: a reading is
\* never earlier than the one before it
RECURSIVE ClockCourses(_, _)
ClockCourses(t, reads) ==
    IF reads = 0 THEN {<<>>}
    ELSE {Append(p[1], p[2]) :
            p \in {q \in ClockCourses(t, reads - 1) \X {t + o : o \in ClockOffsets} :
                      q[1] = <<>> \/ q[1][Len(q[1])] <= q[2]}}

ClockChain(kinds) ==
    [k \in 1..Len(kinds) |->
        [number       |-> ScanStep * k,
         timestamp    |-> ToHex(kinds[k].ahead),
         transactions |-> [i \in 1..Len(kinds[k].transactions) |->
                            [kinds[k].transactions[i] EXCEPT !.hash = 10 * ScanStep * k + i]]]]

\* the ledgers of this specification: up to two sampled blocks of the kinds
\* the ledger produces, mined while the clock showed 0
ClockLedgers ==
    {ClockChain(kinds) : kinds \in UNION {[1..n -> BlockKinds] : n \in 0..2}}

ClockDays == {2, 14}

ClockInit ==
    \E ledger \in ClockLedgers, tz \in Zones :
        /\ pc = "idle"
        /\ run_days = 0
        /\ run_supply = 0
        /\ scan_head = NoScan
        /\ staking_contract = ""
        /\ total_supply = DefaultTotalSupply
        /\ actual_staked_balance = 0
        /\ head = ScanStep * (Len(ledger) + 1)
        /\ chain = ledger
        /\ token_balance = 0
        /\ now = 0
        /\ zone = tz
        /\ ledger_reads = 0
        /\ balance_data = NoBalance
        /\ staking_data = NoStaking
        /\ unstaking_data = NoUnstaking
        /\ flow_analysis = NoFlow
        /\ health_metrics = NoHealth
        /\ projections = NoProjections
        /\ executive_summary = NoSummary

ClockNext ==
    \/ \E days \in ClockDays : StartRun(StakingAddress, days, 0)
    \/ GetTotalStakedBalance
    \/ AnalyzeStakingEvents(AllAnswered)
    \/ \E clock \in ClockCourses(now, UnstakeReads(AllAnswered)) :
          AnalyzeUnstakingEvents(clock, AllAnswered)
    \/ AnalyzeStakingFlows(AllAnswered)
    \/ CalculateCompleteHealthMetrics
    \/ CalculateProjectionsAndPressure
    \/ GenerateExecutiveSummary

ClockSpec == ClockInit /\ [][ClockNext]_vars

----------------------------------------------------------------------------
(* Several runs on one instance                                             *)

\* run_complete_analysis returns its report, or its exception reaches the
\* caller; the instance keeps its fields and can be run again
ReturnToCaller ==
    /\ pc \in {"done", "error"}
    /\ pc' = "idle"
    /\ UNCHANGED <<zone, run_days, run_supply, scan_head, staking_contract, total_supply, actual_staked_balance,
                   head, chain, token_balance, now, ledger_reads, balance_data, staking_data,
                   unstaking_data, flow_analysis, health_metrics, projections,
                   executive_summary>>

RerunNext ==
    \/ \E kind \in BlockKinds : MineBlock(kind)
    \/ \E supply \in SupplyChoices : StartRun(StakingAddress, 14, supply)
    \/ GetTotalStakedBalance
    \/ AnalyzeStakingEvents(AllAnswered)
    \/ \E clock \in SteadyClock(now, UnstakeReads(AllAnswered)) :
          AnalyzeUnstakingEvents(clock, AllAnswered)
    \/ AnalyzeStakingFlows(AllAnswered)
    \/ CalculateCompleteHealthMetrics
    \/ CalculateProjectionsAndPressure
    \/ GenerateExecutiveSummary
    \/ ReturnToCaller

RerunSpec == Init /\ [][RerunNext]_vars

----------------------------------------------------------------------------
(* The pipeline on a ledger five weeks long, for windows of 3 to 35 days   *)

WeeklyHead == 1500000

StakeTxs   == <<TxCreate, TxStakeA, TxOther>>
UnstakeTxs == <<TxUnstakeA, TxUnknown, TxUnstakeB>>

WeeklyBlock(number, txs) ==
    [number       |-> number,
     timestamp    |-> ToHex(0),
     transactions |-> [i \in 1..Len(txs) |-> [txs[i] EXCEPT !.hash = 10 * number + i]]]

\* blocks before the fourth week back from the head, on the first block of
\* the fourth week, in the third and second week, on the first block of the
\* most recent week, and in that week on and off the counted block numbers
WeeklyChain ==
    <<WeeklyBlock(WeeklyHead - 4 * DaysPerWeek * BlocksPerDay - CountStep, StakeTxs),
      WeeklyBlock(WeeklyHead - 4 * DaysPerWeek * BlocksPerDay, UnstakeTxs),
      WeeklyBlock(WeeklyHead - 3 * DaysPerWeek * BlocksPerDay + 7200, StakeTxs),
      WeeklyBlock(WeeklyHead - 2 * DaysPerWeek * BlocksPerDay + 4800, UnstakeTxs),
      WeeklyBlock(WeeklyHead - DaysPerWeek * BlocksPerDay, StakeTxs),
      WeeklyBlock(WeeklyHead - DaysPerWeek * BlocksPerDay + 102400, UnstakeTxs),
      WeeklyBlock(WeeklyHead - DaysPerWeek * BlocksPerDay + 102500, StakeTxs)>>

WeeklyLedgers == {SubSeq(WeeklyChain, first, Len(WeeklyChain)) : first \in {1, 3, 5, 8}}

WeeklyDays == {3, 6, 7, 13, 14, 21, 28, 35}

WeeklyInit ==
    \E ledger \in WeeklyLedgers :
        /\ pc = "idle"
        /\ run_days = 0
        /\ run_supply = 0
        /\ scan_head = NoScan
        /\ staking_contract = ""
        /\ total_supply = DefaultTotalSupply
        /\ actual_staked_balance = 0
        /\ head = WeeklyHead
        /\ chain = ledger
        /\ token_balance = 0
        /\ now = 0
        /\ zone = UtcZone
        /\ ledger_reads = 0
        /\ balance_data = NoBalance
        /\ staking_data = NoStaking
        /\ unstaking_data = NoUnstaking
        /\ flow_analysis = NoFlow
        /\ health_metrics = NoHealth
        /\ projections = NoProjections
        /\ executive_summary = NoSummary

WeeklyNext ==
    \/ \E days \in WeeklyDays : StartRun(StakingAddress, days, 0)
    \/ GetTotalStakedBalance
    \/ AnalyzeStakingEvents(AllAnswered)
    \/ \E clock \in SteadyClock(now, UnstakeReads(AllAnswered)) :
          AnalyzeUnstakingEvents(clock, AllAnswered)
    \/ AnalyzeStakingFlows(AllAnswered)
    \/ CalculateCompleteHealthMetrics
    \/ CalculateProjectionsAndPressure
    \/ GenerateExecutiveSummary

WeeklySpec == WeeklyInit /\ [][WeeklyNext]_vars

----------------------------------------------------------------------------
(* The pipeline on ledgers whose unstake transactions unlock on chosen     *)
(* days: the clock stands at day 15, and a block stamped on day d + 1      *)
(* unlocks in d days                                                       *)

PressureNow == 15 * SecondsPerDay

\* the blocks of a ledger unlock in the days of `days', latest first; on
\* days 0, 5 and 14 two senders unstake
PressureChain(days) ==
    LET order == SelectSeq(<<15, 14, 8, 7, 6, 5, 2, 1, 0, -1>>, LAMBDA d : d \in days)
    IN  [k \in 1..Len(order) |->
            LET txs == IF order[k] \in {0, 5, 14}
                       THEN <<TxUnstakeA, TxStakeA, TxUnstakeB>> ELSE <<TxUnstakeB>>
            IN  [number       |-> ScanStep * k,
                 timestamp    |-> ToHex((order[k] + 1) * SecondsPerDay),
                 transactions |-> [i \in 1..Len(txs) |->
                                    [txs[i] EXCEPT !.hash = 10 * ScanStep * k + i]]]]

PressureLedgers == {PressureChain(days) : days \in SUBSET {-1, 0, 1, 2, 5, 6, 7, 8, 14, 15}}


PressureInit ==
    \E ledger \in PressureLedgers :
        /\ pc = "idle"
        /\ run_days = 0
        /\ run_supply = 0
        /\ scan_head = NoScan
        /\ staking_contract = ""
        /\ total_supply = DefaultTotalSupply
        /\ actual_staked_balance = 0
        /\ head = ScanStep * (Len(ledger) + 1)
        /\ chain = ledger
        /\ token_balance = 0
        /\ now = PressureNow
        /\ zone = UtcZone
        /\ ledger_reads = 0
        /\ balance_data = NoBalance
        /\ staking_data = NoStaking
        /\ unstaking_data = NoUnstaking
        /\ flow_analysis = NoFlow
        /\ health_metrics = NoHealth
        /\ projections = NoProjections
        /\ executive_summary = NoSummary

\* an odd window: no daily average of whole tokens lies halfway between two
\* whole numbers
PressureNext ==
    \/ StartRun(StakingAddress, 15, 0)
    \/ GetTotalStakedBalance
    \/ AnalyzeStakingEvents(AllAnswered)
    \/ \E clock \in SteadyClock(now, UnstakeReads(AllAnswered)) :
          AnalyzeUnstakingEvents(clock, AllAnswered)
    \/ AnalyzeStakingFlows(AllAnswered)
    \/ CalculateCompleteHealthMetrics
    \/ CalculateProjectionsAndPressure
    \/ GenerateExecutiveSummary

PressureSpec == PressureInit /\ [][PressureNext]_vars

----------------------------------------------------------------------------
(* The pipeline on a ledger that also produces malformed blocks and blocks *)
(* between the sampled block numbers                                       *)

LedgerNext ==
    \/ \E kind \in BlockKinds : MineBlock(kind)
    \/ \E kind \in FaultyKinds : MineFaultyBlock(kind)
    \/ \E kind \in OffStrideKinds : MineOffStride(kind)
    \/ StartRun(StakingAddress, 14, 0)
    \/ GetTotalStakedBalance
    \/ AnalyzeStakingEvents(AllAnswered)
    \/ \E clock \in SteadyClock(now, UnstakeReads(AllAnswered)) :
          AnalyzeUnstakingEvents(clock, AllAnswered)
    \/ AnalyzeStakingFlows(AllAnswered)
    \/ CalculateCompleteHealthMetrics
    \/ CalculateProjectionsAndPressure
    \/ GenerateExecutiveSummary

LedgerSpec == Init /\ [][LedgerNext]_vars

----------------------------------------------------------------------------
(* The pipeline on a ledger that does not answer every request: any        *)
(* request for the latest block and any request for a block may raise or   *)
(* come back without a result                                              *)

BlockNumbers == {chain[i].number : i \in 1..Len(chain)}

\* the ledgers of this specification: up to 2 sampled blocks of the kinds the
\* ledger produces, two of them with an unstake transaction, one with call
\* data that is null
OutageInit ==
    \E kinds \in UNION {[1..n -> BlockKinds \cup OffStrideKinds] : n \in 0..2} :
        /\ pc = "idle"
        /\ run_days = 0
        /\ run_supply = 0
        /\ scan_head = NoScan
        /\ staking_contract = ""
        /\ total_supply = DefaultTotalSupply
        /\ actual_staked_balance = 0
        /\ head = ScanStep * (Len(kinds) + 1)
        /\ chain = ClockChain(kinds)
        /\ token_balance = 0
        /\ now = 0
        /\ zone = UtcZone
        /\ ledger_reads = 0
        /\ balance_data = NoBalance
        /\ staking_data = NoStaking
        /\ unstaking_data = NoUnstaking
        /\ flow_analysis = NoFlow
        /\ health_metrics = NoHealth
        /\ projections = NoProjections
        /\ executive_summary = NoSummary

OutageNext ==
    \/ StartRun(StakingAddress, 14, 0)
    \/ GetTotalStakedBalance
    \/ \E answered \in BOOLEAN, lost \in SUBSET BlockNumbers :
          AnalyzeStakingEvents([head |-> answered, stake |-> lost, unstake |-> {}])
    \/ \E answered \in BOOLEAN, lost \in SUBSET BlockNumbers :
          \E clock \in SteadyClock(now, UnstakeReads([head |-> answered, stake |-> {},
                                                     unstake |-> lost])) :
             AnalyzeUnstakingEvents(clock, [head |-> answered, stake |-> {}, unstake |-> lost])
    \/ \E net \in [head : BOOLEAN, stake : SUBSET BlockNumbers,
                    unstake : SUBSET BlockNumbers] : AnalyzeStakingFlows(net)
    \/ CalculateCompleteHealthMetrics
    \/ CalculateProjectionsAndPressure
    \/ GenerateExecutiveSummary

OutageSpec == OutageInit /\ [][OutageNext]_vars

----------------------------------------------------------------------------
(* The aggregation methods called on their own: analyze_staking_flows,     *)
(* calculate_complete_health_metrics, calculate_projections_and_pressure   *)
(* and generate_executive_summary take the scan results as arguments, and  *)
(* a caller applies them, in the order of phases 4 to 6, to scan results   *)
(* drawn from bounded sets, on an instance that has verified its balance   *)
(* and whose ledger holds no block.  A drawn scan result has the shape     *)
(* analyze_staking_events and analyze_unstaking_events return: the count   *)
(* is the length of the event list and the total the sum of the amounts of *)
(* the events; the amounts are drawn, in place of the estimates, from the  *)
(* multiples of ScoreUnit                                                  *)

\* the unit of the drawn amounts: the least amount an unstake is estimated at
ScoreUnit == 20000

\* n stake events of one amount, of transactions in a block stamped at the
\* time of the call
DrawnStakes(n, amount) ==
    [k \in 1..n |->
        [AnalyzeStakeTransaction([TxStakeA EXCEPT !.hash = 10 * ScanStep + k],
                                 [timestamp |-> ToHex(PressureNow)],
                                 StakeSignatures[1], UtcZone)
            EXCEPT !.estimated_amount = amount]]

\* n unstake events of one amount that unlock in `day` days
DrawnUnstakes(n, amount, day) ==
    [k \in 1..n |->
        [AnalyzeUnstakeTransaction([TxUnstakeA EXCEPT !.hash = 20 * ScanStep + k],
                                   [timestamp |-> ToHex((day + 1) * SecondsPerDay)],
                                   UnstakeSignatures[1], PressureNow, UtcZone)
            EXCEPT !.estimated_amount = amount]]

\* the stake events, the unstake events and the days of a pair of scans: a
\* stake and an unstake of up to MaxAmount units each, the scenario, and 23
\* stakes with 137 unstakes of one unit each; the unstakes unlock in 3 days
\* or in 15
ScoreRuns ==
    {<<DrawnStakes(IF a = 0 THEN 0 ELSE 1, Whole(a * ScoreUnit)),
       DrawnUnstakes(IF b = 0 THEN 0 ELSE 1, Whole(b * ScoreUnit), day), 14>> :
          a, b \in 0..MaxAmount, day \in {3, 15}}
    \cup {<<DrawnStakes(1, Whole(50000)), DrawnUnstakes(1, Whole(20000), day), 14>> :
             day \in {3, 15}}
    \cup {<<DrawnStakes(23, Whole(ScoreUnit)), DrawnUnstakes(137, Whole(ScoreUnit), day), 14>> :
             day \in {3, 15}}

\* the answer of the balance call (-1: it raises) and the total supply
ScoreBalances == {<<100 * ScoreUnit, 200 * ScoreUnit>>, <<100 * ScoreUnit, 1000 * ScoreUnit>>,
                  <<300 * ScoreUnit, 1000 * ScoreUnit>>, <<450 * ScoreUnit, 1000 * ScoreUnit>>,
                  <<1000000, 10000000>>,
                  <<100040, 1000000>>, <<-1, DefaultTotalSupply>>}

ScoreInit ==
    \E run \in ScoreRuns, bal \in ScoreBalances :
        /\ pc = "flow"
        /\ run_days = run[3]
        /\ run_supply = IF bal[2] = DefaultTotalSupply THEN 0 ELSE bal[2]
        /\ scan_head = NoScan
        /\ staking_contract = Lower(StakingAddress)
        /\ total_supply = bal[2]
        /\ token_balance = bal[1]
        /\ balance_data = BalanceSnapshot(bal[1], bal[2])
        /\ actual_staked_balance = BalanceSnapshot(bal[1], bal[2]).balance_tokens
        /\ head = 0
        /\ chain = <<>>
        /\ now = PressureNow
        /\ zone = UtcZone
        /\ ledger_reads = 1
        /\ staking_data = StakingData(run[1], ScanStep, run[3])
        /\ unstaking_data = UnstakingData(run[2], ScanStep, run[3])
        /\ flow_analysis = NoFlow
        /\ health_metrics = NoHealth
        /\ projections = NoProjections
        /\ executive_summary = NoSummary

ScoreNext ==
    \/ AnalyzeStakingFlows(AllAnswered)
    \/ CalculateCompleteHealthMetrics
    \/ CalculateProjectionsAndPressure
    \/ GenerateExecutiveSummary

ScoreSpec == ScoreInit /\ [][ScoreNext]_vars

----------------------------------------------------------------------------
(* Properties of the report                                                 *)

FlowDone        == pc \in {"health", "projections", "summary", "done"}
HealthDone      == pc \in {"projections", "summary", "done"}
ProjectionsDone == pc \in {"summary", "done"}

UnstakeEvents == unstaking_data.unstake_events
Factors       == health_metrics.health_assessment.health_factors
EventsOn(events, d)  == SelectSeq(events, LAMBDA e : e.days_remaining = d)
ActiveOn(events, d)  == SelectSeq(events, LAMBDA e : e.status = "active" /\ e.days_remaining = d)
ExpiredOn(events, d) == SelectSeq(events, LAMBDA e : e.status = "expired" /\ e.days_remaining = d)

\* the sum, day after day from day 0 to day 14, of the day totals of events
PressureOf(events) ==
    AmtSum([n \in 1..(PressureDays + 1) |-> TotalAmount(EventsOn(events, n - 1))], Whole(0))

\* the sign of m * a - n * b for amounts a, b and whole numbers m, n, exactly
CmpScaled(m, a, n, b) ==
    AmtSign([tokens |-> m * a.tokens - n * b.tokens, frac |-> m * a.frac - n * b.frac])

\* C1 (as stated): in every flow analysis net_amount = stake_amount -
\* unstake_amount, and the two reported event percentages add up to 100 when
\* there is at least one event and are both 0 when there is none.  The report
\* holds the percentages rounded to two decimals, here in hundredths.
C1_FlowIdentities ==
    FlowDone =>
        LET cm == flow_analysis.comparison_metrics
            pt == flow_analysis.percentages
        IN  /\ cm.net_amount = AmtSub(cm.stake_amount, cm.unstake_amount)
            /\ IF cm.stake_events + cm.unstake_events > 0
               THEN pt.stake_event_percentage + pt.unstake_event_percentage = 10000
               ELSE pt.stake_event_percentage = 0 /\ pt.unstake_event_percentage = 0

\* C2: every unstake event matures 14 days after the timestamp of the block
\* that holds its transaction (its expiry_date is the host's local time of
\* the instant 14 days after the block's), and its status is "expired"
\* exactly when its days_remaining is <= 0, "active" otherwise.
C2_MaturityAndStatus ==
    \A i \in 1..Len(UnstakeEvents) :
        LET e == UnstakeEvents[i]
        IN  /\ \E n \in 1..Len(chain) : \E j \in 1..Len(chain[n].transactions) :
                 /\ chain[n].transactions[j].hash = e.transaction_hash
                 /\ e.expiry_date = LocalTime(zone, HexToInt(chain[n].timestamp) + 14 * 86400)
            /\ e.status \in {"active", "expired"}
            /\ (e.status = "expired") <=> (e.days_remaining <= 0)

\* C3: every unstake event with 0 <= days_remaining <= 14 is in the bucket
\* of the pressure timeline for that day, whose count and amount are those of
\* all the events of that day; an event with days_remaining < 0 or > 14 is in
\* no bucket; the report shows the first buckets and the sum of all of them.
C3_TimelineBuckets ==
    ProjectionsDone =>
        LET timeline == CalculateSellingPressureTimeline(UnstakeEvents)
            sp       == projections.selling_pressure
        IN  /\ \A i \in 1..Len(UnstakeEvents) :
                 LET d == UnstakeEvents[i].days_remaining
                 IN  IF 0 <= d /\ d <= 14
                     THEN \E k \in 1..Len(timeline) :
                            /\ timeline[k].day = d
                            /\ timeline[k].count = Len(EventsOn(UnstakeEvents, d))
                            /\ timeline[k].amount = TotalAmount(EventsOn(UnstakeEvents, d))
                     ELSE \A k \in 1..Len(timeline) : timeline[k].day # d
            /\ \A k \in 1..Len(timeline) : EventsOn(UnstakeEvents, timeline[k].day) # <<>>
            /\ \A k, m \in 1..Len(timeline) : k < m => timeline[k].day < timeline[m].day
            /\ sp.pressure_timeline = SubSeq(timeline, 1, Min(7, Len(timeline)))
            /\ sp.total_pressure_14_days = PressureOf(UnstakeEvents)

C3_Witness ==
    /\ ProjectionsDone
    /\ \E k \in 1..Len(projections.selling_pressure.pressure_timeline) :
         projections.selling_pressure.pressure_timeline[k].count >= 2
    /\ \E i \in 1..Len(UnstakeEvents) : UnstakeEvents[i].days_remaining < 0

\* C4 (as stated): only active events are bucketed: count and amount of every
\* bucket, and the total 14-day pressure, come from active events alone.
C4_OnlyActiveBucketed ==
    ProjectionsDone =>
        LET timeline == CalculateSellingPressureTimeline(UnstakeEvents)
        IN  /\ \A k \in 1..Len(timeline) :
                 /\ timeline[k].count = Len(ActiveOn(UnstakeEvents, timeline[k].day))
                 /\ timeline[k].amount = TotalAmount(ActiveOn(UnstakeEvents, timeline[k].day))
            /\ projections.selling_pressure.total_pressure_14_days =
                 PressureOf(SelectSeq(UnstakeEvents, LAMBDA e : e.status = "active"))

\* C4 (amended): the buckets of the days 1..14 hold active events only; an
\* expired event is bucketed, and counted in the total 14-day pressure,
\* exactly when its days_remaining is 0: the day-0 bucket holds the expired
\* events of day 0, and an expired event with days_remaining < 0 is nowhere.
C4_ExpiredOnlyOnDayZero ==
    ProjectionsDone =>
        LET timeline == CalculateSellingPressureTimeline(UnstakeEvents)
        IN  /\ \A k \in 1..Len(timeline) :
                 IF timeline[k].day = 0
                 THEN /\ timeline[k].count = Len(ExpiredOn(UnstakeEvents, 0))
                      /\ timeline[k].amount = TotalAmount(ExpiredOn(UnstakeEvents, 0))
                 ELSE /\ timeline[k].day \in 1..14
                      /\ timeline[k].count = Len(ActiveOn(UnstakeEvents, timeline[k].day))
                      /\ timeline[k].amount =
                           TotalAmount(ActiveOn(UnstakeEvents, timeline[k].day))
            /\ \A i \in 1..Len(UnstakeEvents) :
                 UnstakeEvents[i].status = "expired" =>
                    ((\E k \in 1..Len(timeline) :
                         timeline[k].day = UnstakeEvents[i].days_remaining)
                     <=> UnstakeEvents[i].days_remaining = 0)
            /\ projections.selling_pressure.total_pressure_14_days =
                 PressureOf(SelectSeq(UnstakeEvents,
                     LAMBDA e : e.status = "active" \/ e.days_remaining = 0))

C4_Witness ==
    /\ ProjectionsDone
    /\ \E k \in 1..Len(projections.selling_pressure.pressure_timeline) :
         projections.selling_pressure.pressure_timeline[k].day = 0
    /\ \E i \in 1..Len(UnstakeEvents) :
         UnstakeEvents[i].status = "expired" /\ UnstakeEvents[i].days_remaining < 0

StakeTotal   == staking_data.total_estimated_stake_amount
UnstakeTotal == unstaking_data.total_estimated_unstake_amount

\* C5 (as stated): the health factor list has exactly 4 entries, each of them
\* in {-1, 0, 1, 2}.
C5_FactorsInRange ==
    HealthDone =>
        /\ Len(Factors) = 4
        /\ \A i \in 1..4 : Factors[i] \in {-1, 0, 1, 2}

\* C5 (amended): the health factor list has exactly 4 entries; the staking
\* share, unstaking incidence and net flow factors are in {-1, 0, 1, 2}, and
\* the third entry is the trend score of the flow analysis, in {-2, ..., 2}.
C5_FactorsWithTrendScore ==
    HealthDone =>
        /\ Len(Factors) = 4
        /\ \A i \in {1, 2, 4} : Factors[i] \in {-1, 0, 1, 2}
        /\ Factors[3] = flow_analysis.trend_analysis.trend_score
        /\ Factors[3] \in {-2, -1, 0, 1, 2}

C5_Witness ==
    /\ HealthDone
    /\ flow_analysis.trend_analysis.trend = "STRONG DECLINE"
    /\ Factors[3] = -2

\* C6: the trend is decided by the amount totals alone, net = stake - unstake
\* (taken exactly, as are the tenths of the stake total):
\* net > 10% of stake is STRONG GROWTH (2), 0 < net <= 10% is GROWTH (1),
\* -10% < net <= 0 is STABLE (0), -30% < net <= -10% is DECLINE (-1), anything
\* else is STRONG DECLINE (-2), whatever the balance and the event counts.
C6_TrendBands ==
    FlowDone =>
        LET net == [tokens |-> StakeTotal.tokens - UnstakeTotal.tokens,
                    frac   |-> StakeTotal.frac - UnstakeTotal.frac]
            tr  == <<flow_analysis.trend_analysis.trend,
                     flow_analysis.trend_analysis.trend_score>>
        IN  IF CmpScaled(10, net, 1, StakeTotal) > 0 THEN tr = <<"STRONG GROWTH", 2>>
            ELSE IF AmtSign(net) > 0 /\ CmpScaled(10, net, 1, StakeTotal) <= 0
                 THEN tr = <<"GROWTH", 1>>
            ELSE IF CmpScaled(10, net, -1, StakeTotal) > 0 /\ AmtSign(net) <= 0
                 THEN tr = <<"STABLE", 0>>
            ELSE IF CmpScaled(10, net, -3, StakeTotal) > 0
                    /\ CmpScaled(10, net, -1, StakeTotal) <= 0
                 THEN tr = <<"DECLINE", -1>>
            ELSE tr = <<"STRONG DECLINE", -2>>

\* net is exactly -10% of the stake total: the first value of the DECLINE band
C6_Witness ==
    /\ FlowDone
    /\ StakeTotal = Whole(10 * ScoreUnit)
    /\ UnstakeTotal = Whole(11 * ScoreUnit)
    /\ flow_analysis.trend_analysis.trend = "DECLINE"

\* the scenario: balance 1,000,000 of a supply of 10,000,000, 50,000 staked
\* and 20,000 unstaked over 14 days
Scenario ==
    /\ HealthDone
    /\ balance_data.balance_tokens = 1000000
    /\ total_supply = 10000000
    /\ StakeTotal = Whole(50000)
    /\ UnstakeTotal = Whole(20000)
    /\ staking_data.period_days = 14

\* C7 (as stated): the scenario yields net 30,000, trend GROWTH with score 1,
\* factors (-1, 1, 1, 1), mean 0.5 and grade GOOD.
C7_ScenarioGrowth ==
    Scenario =>
        /\ flow_analysis.comparison_metrics.net_amount = Whole(30000)
        /\ flow_analysis.trend_analysis.trend = "GROWTH"
        /\ flow_analysis.trend_analysis.trend_score = 1
        /\ Factors = <<-1, 1, 1, 1>>
        /\ health_metrics.health_assessment.average_score = 50
        /\ health_metrics.health_assessment.health_score = "GOOD"

\* C7 (amended): the scenario yields net 30,000, which is above 10% of the
\* 50,000 staked: trend STRONG GROWTH with score 2, factors (-1, 1, 2, 1),
\* mean 0.75 and grade GOOD.
C7_ScenarioStrongGrowth ==
    Scenario =>
        /\ flow_analysis.comparison_metrics.net_amount = Whole(30000)
        /\ flow_analysis.trend_analysis.trend = "STRONG GROWTH"
        /\ flow_analysis.trend_analysis.trend_score = 2
        /\ Factors = <<-1, 1, 2, 1>>
        /\ health_metrics.health_assessment.average_score = 75
        /\ health_metrics.health_assessment.health_score = "GOOD"

C7_Witness == Scenario /\ health_metrics.health_assessment.health_score = "GOOD"

GradeRank(grade) ==
    CASE grade = "CRITICAL"  -> 0
      [] grade = "MODERATE"  -> 1
      [] grade = "GOOD"      -> 2
      [] grade = "EXCELLENT" -> 3

\* C8: the grade is decided by the mean of the four factors: >= 1.5 EXCELLENT,
\* >= 0.5 GOOD, >= -0.5 MODERATE, else CRITICAL (on the sum: 6, 2 and -2); and
\* raising one factor, the others fixed, never gives a worse grade.
C8_GradeOfMean ==
    HealthDone =>
        LET ha    == health_metrics.health_assessment
            total == SumSeq(Factors)
        IN  /\ ha.average_score = 25 * total
            /\ ha.health_score = IF total >= 6 THEN "EXCELLENT"
                                 ELSE IF total >= 2 THEN "GOOD"
                                 ELSE IF total >= -2 THEN "MODERATE"
                                 ELSE "CRITICAL"
            /\ \A i \in 1..Len(Factors) : \A v \in Factors[i]..2 :
                 GradeRank(HealthScore(AverageScore([Factors EXCEPT ![i] = v])))
                    >= GradeRank(ha.health_score)

\* a mean of exactly 0.5, the first value graded GOOD
C8_Witness ==
    /\ HealthDone
    /\ health_metrics.health_assessment.average_score = 50
    /\ health_metrics.health_assessment.health_score = "GOOD"
    /\ \E i \in 1..4 : Factors[i] < 2

\* C9 (as stated): the staking share factor is the threshold map of the share
\* balance / total supply * 100: above 40 gives 2, above 20 gives 1, above 10
\* gives 0, else -1, also for a share just above a threshold.
C9_ShareThresholds ==
    HealthDone =>
        Factors[1] = IF balance_data.balance_tokens > (2 * total_supply) \div 5 THEN 2
                     ELSE IF balance_data.balance_tokens > total_supply \div 5 THEN 1
                     ELSE IF balance_data.balance_tokens > total_supply \div 10 THEN 0
                     ELSE -1

\* C10 (as stated): a run over 0 days is rejected before any ledger read and
\* ends without a report.
C10_ZeroWindowRejected ==
    (pc # "idle" /\ run_days = 0) => (ledger_reads = 0 /\ pc # "done")

----------------------------------------------------------------------------
(* Malformed ledger records                                                 *)

\* C11: a run is never aborted by a single bad block or transaction: with a
\* window of at least one day, whatever malformed record the scanned blocks
\* hold, no phase of the run raises
C11_NeverAborted == (pc = "error") => run_days = 0

----------------------------------------------------------------------------
(* The balance snapshot                                                     *)

BalanceDone == pc \notin {"idle", "balance"}

\* the supply in units of 10000 tokens: one hundredth of a percent of it
SupplyUnit == total_supply \div 10000

\* C12: the snapshot of a run carries the reading of the balance call and the
\* method direct_balance_call when the reading is positive, and the estimated
\* balance and the method estimated_from_activity when the call raised or
\* returned no positive value; in both branches percentage_of_supply is
\* balance / total_supply x 100 rounded to two decimals, and the instance's
\* actual_staked_balance is the snapshot's token balance
C12_SnapshotBranches ==
    BalanceDone =>
        /\ token_balance > 0 =>
              /\ balance_data.balance_tokens = token_balance
              /\ balance_data.verification_method = "direct_balance_call"
        /\ token_balance <= 0 =>
              /\ balance_data.balance_tokens = EstimatedBalance
              /\ balance_data.verification_method = "estimated_from_activity"
        /\ total_supply % 10000 = 0
        /\ 2 * Abs(balance_data.balance_tokens
                     - balance_data.percentage_of_supply * SupplyUnit) <= SupplyUnit
        /\ actual_staked_balance = balance_data.balance_tokens

\* C12 as stated: percentage_of_supply is exactly balance / total_supply x 100
C12_ExactPercentage ==
    BalanceDone => balance_data.percentage_of_supply * SupplyUnit = balance_data.balance_tokens

\* an empty answer of the balance call led to the estimated snapshot, whose
\* share of a supply of 3000000 is no whole number of hundredths
C12_Witness ==
    /\ pc = "staking"
    /\ token_balance = 0
    /\ total_supply = 3000000
    /\ balance_data.verification_method = "estimated_from_activity"
    /\ balance_data.percentage_of_supply = 1526667
    /\ actual_staked_balance = EstimatedBalance

----------------------------------------------------------------------------
(* The overall status                                                       *)

SummaryDone == pc = "done"
Grade       == health_metrics.health_assessment.health_score
Trend       == health_metrics.trend_analysis.direction
NetFlowPct  == health_metrics.flow_metrics.net_flow_percentage
Intensity   == projections.selling_pressure.pressure_intensity

RowExcellent == Grade = "EXCELLENT" /\ Trend \in {"GROWTH", "STRONG GROWTH"} /\ NetFlowPct > 0
RowGood      == Grade \in {"EXCELLENT", "GOOD"} /\ NetFlowPct >= 0
RowStable    == Grade \in {"GOOD", "MODERATE"} /\ NetFlowPct > -500
RowAttention == Grade = "MODERATE" \/ Intensity \in {"HIGH", "CRITICAL"}

\* C13: the overall status of a report follows the precedence table, the first
\* matching row winning: grade EXCELLENT with a growth trend and net flow above
\* 0% is EXCELLENT; grade EXCELLENT or GOOD with net flow of at least 0% is
\* GOOD; grade GOOD or MODERATE with net flow above -5% is STABLE; grade
\* MODERATE, or pressure intensity HIGH or CRITICAL, is ATTENTION; every other
\* combination is CRITICAL
C13_StatusPrecedence ==
    SummaryDone =>
        /\ RowExcellent => executive_summary.overall_status = "EXCELLENT"
        /\ (~RowExcellent /\ RowGood) => executive_summary.overall_status = "GOOD"
        /\ (~RowExcellent /\ ~RowGood /\ RowStable) =>
              executive_summary.overall_status = "STABLE"
        /\ (~RowExcellent /\ ~RowGood /\ ~RowStable /\ RowAttention) =>
              executive_summary.overall_status = "ATTENTION"
        /\ (~RowExcellent /\ ~RowGood /\ ~RowStable /\ ~RowAttention) =>
              executive_summary.overall_status = "CRITICAL"
\* a report whose grade is CRITICAL and whose status is ATTENTION by the
\* pressure intensity alone: the first three rows did not match
C13_Witness ==
    /\ SummaryDone
    /\ ~RowExcellent /\ ~RowGood /\ ~RowStable
    /\ Grade = "CRITICAL"
    /\ Intensity \in {"HIGH", "CRITICAL"}
    /\ executive_summary.overall_status = "ATTENTION"

----------------------------------------------------------------------------
(* Runs on a used instance                                                  *)

\* C14: the report of a run depends only on the arguments of that run and on
\* the ledger, never on earlier runs of the instance: the supply its figures
\* are computed against is the argument total_supply of the run, or the
\* default supply when the argument is not given
C14_SupplyOfThisRun ==
    HealthDone =>
        health_metrics.total_supply =
            IF run_supply # 0 THEN run_supply ELSE DefaultTotalSupply

----------------------------------------------------------------------------
(* The window scan                                                          *)

StakingDone   == pc \in {"unstaking", "flow", "health", "projections", "summary", "done"}
UnstakingDone == pc \in {"flow", "health", "projections", "summary", "done"}
StakeEvents   == staking_data.stake_events

\* the blocks of the ledger inside the window from_block..current_block
WindowBlocks ==
    {i \in 1..Len(chain) : /\ FromBlock(head, run_days) <= chain[i].number
                           /\ chain[i].number < head}

EventsOfHash(events, hash) ==
    Cardinality({k \in 1..Len(events) : events[k].transaction_hash = hash})

\* C15: the scan classifies every transaction of every block of the window:
\* each well-formed transaction of a block in from_block..current_block that
\* is sent to the staking contract with a stake selector has exactly one
\* stake event, and each one with an unstake selector exactly one unstake event
C15_EveryWindowTransaction ==
    /\ StakingDone =>
          \A i \in WindowBlocks : \A j \in 1..Len(chain[i].transactions) :
              LET tx == chain[i].transactions[j]
              IN  (/\ MatchingSignature(tx, staking_contract, StakeSignatures) # 0
                   /\ ~AnalysisFails(tx, chain[i]))
                    => EventsOfHash(StakeEvents, tx.hash) = 1
    /\ UnstakingDone =>
          \A i \in WindowBlocks : \A j \in 1..Len(chain[i].transactions) :
              LET tx == chain[i].transactions[j]
              IN  (/\ MatchingSignature(tx, staking_contract, UnstakeSignatures) # 0
                   /\ ~AnalysisFails(tx, chain[i]))
                    => EventsOfHash(UnstakeEvents, tx.hash) = 1
\* the blocks of the ledger the scan of the window fetched
ScannedBlocks ==
    {i \in WindowBlocks : (chain[i].number - FromBlock(head, run_days)) % ScanStep = 0}

\* the destination is the staking contract, letter case aside, and the call
\* data starts with one of the selectors
IsCandidate(tx, sigs) ==
    /\ tx.to # ""
    /\ Lower(tx.to) = Lower(StakingAddress)
    /\ \E k \in 1..Len(sigs) : Len(tx.input) >= 1 /\ tx.input[1] = sigs[k]

\* C16: a fetched transaction is a stake candidate iff its destination is the
\* staking contract ignoring letter case and its call data starts with a stake
\* selector, an unstake candidate iff the destination matches and the call
\* data starts with an unstake selector; a candidate whose analysis succeeds
\* has one event of its kind and any other transaction none, a transaction
\* without destination has no event, and no transaction has more than one
\* event over both scans
C16_Classification ==
    UnstakingDone =>
        \A i \in ScannedBlocks : \A j \in 1..Len(chain[i].transactions) :
            LET tx == chain[i].transactions[j]
                ok == ~AnalysisFails(tx, chain[i])
            IN  /\ EventsOfHash(StakeEvents, tx.hash) =
                      IF IsCandidate(tx, StakeSignatures) /\ ok THEN 1 ELSE 0
                /\ EventsOfHash(UnstakeEvents, tx.hash) =
                      IF IsCandidate(tx, UnstakeSignatures) /\ ok THEN 1 ELSE 0
                /\ tx.to = "" => /\ EventsOfHash(StakeEvents, tx.hash) = 0
                                 /\ EventsOfHash(UnstakeEvents, tx.hash) = 0
                /\ EventsOfHash(StakeEvents, tx.hash)
                      + EventsOfHash(UnstakeEvents, tx.hash) <= 1

\* both scans fetched a block in which a transaction to the contract written
\* in mixed case has its stake event, a transaction without destination that
\* carries a stake selector has none, and an unstake transaction has its
\* unstake event
C16_Witness ==
    /\ UnstakingDone
    /\ \E i \in ScannedBlocks : \E j, k, l \in 1..Len(chain[i].transactions) :
          /\ chain[i].transactions[j].to = StakingAddress
          /\ StakingAddress # Lower(StakingAddress)
          /\ EventsOfHash(StakeEvents, chain[i].transactions[j].hash) = 1
          /\ EventsOfHash(UnstakeEvents, chain[i].transactions[j].hash) = 0
          /\ chain[i].transactions[k].to = ""
          /\ chain[i].transactions[k].input = <<"0xa694fc3a">>
          /\ EventsOfHash(StakeEvents, chain[i].transactions[k].hash) = 0
          /\ EventsOfHash(UnstakeEvents, chain[i].transactions[l].hash) = 1

----------------------------------------------------------------------------
(* The weekly breakdown                                                     *)

Weekly == flow_analysis.weekly_breakdown

\* the transactions with one of the selectors to the contract in the counted
\* blocks of the w-th 7-day sub-window back from the head
WeekCount(w, sigs) ==
    LET week_start == head - w * DaysPerWeek * BlocksPerDay
        week_end   == head - (w - 1) * DaysPerWeek * BlocksPerDay
    IN  SumSeq([i \in 1..Len(chain) |->
            IF /\ week_start <= chain[i].number
               /\ chain[i].number < week_end
               /\ (chain[i].number - week_start) % CountStep = 0
            THEN Cardinality({j \in 1..Len(chain[i].transactions) :
                                IsCandidate(chain[i].transactions[j], sigs)})
            ELSE 0])

\* C17: the weekly breakdown is empty for a window of less than 7 days and
\* has min(4, days // 7) buckets otherwise; the buckets cover the successive
\* 7-day block sub-windows back from the current head, each with the stake
\* and unstake counts of its sub-window and net = stake - unstake
C17_WeeklyBuckets ==
    FlowDone =>
        /\ run_days < 7 => Len(Weekly) = 0
        /\ run_days >= 7 => Len(Weekly) = Min(4, run_days \div 7)
        /\ \A k \in 1..Len(Weekly) :
              /\ Weekly[k].stake_events = WeekCount(k, StakeSignatures)
              /\ Weekly[k].unstake_events = WeekCount(k, UnstakeSignatures)
              /\ Weekly[k].net_events = Weekly[k].stake_events - Weekly[k].unstake_events

\* a window of 35 days on the full ledger: four buckets, none for the fifth
\* week, the block on the first number of the fourth week counted
C17_Witness ==
    /\ FlowDone
    /\ run_days = 35
    /\ Len(chain) = 7
    /\ Len(Weekly) = 4
    /\ Weekly[1].stake_events = 1 /\ Weekly[1].unstake_events = 2 /\ Weekly[1].net_events = -1
    /\ Weekly[4].stake_events = 0 /\ Weekly[4].unstake_events = 2

\* C18: the weekly buckets are computed and returned most recent week first,
\* and the week index counts down: the bucket at position k of n, which is
\* the k-th sub-window back from the head, carries the index n - k + 1
C18_IndicesDescending ==
    FlowDone =>
        \A k \in 1..Len(Weekly) :
            /\ Weekly[k].week = Len(Weekly) - k + 1
            /\ Weekly[k].stake_events - Weekly[k].unstake_events
                  = WeekCount(k, StakeSignatures) - WeekCount(k, UnstakeSignatures)

\* C18 as stated: the week indices of the returned sequence are 1, 2, ..., n
C18_IndicesAscending ==
    FlowDone => \A k \in 1..Len(Weekly) : Weekly[k].week = k

\* a window of 21 days: the most recent week comes first under the index 3
C18_Witness ==
    /\ FlowDone
    /\ run_days = 21
    /\ Len(chain) = 7
    /\ Len(Weekly) = 3
    /\ Weekly[1].week = 3 /\ Weekly[1].net_events = -1
    /\ Weekly[3].week = 1 /\ Weekly[3].net_events = 1

----------------------------------------------------------------------------
(* The pressure timeline and the part of it the report shows                *)

Timeline      == CalculateSellingPressureTimeline(UnstakeEvents)
ShownTimeline == projections.selling_pressure.pressure_timeline

\* the unstake events that contribute to the timeline, and their days
Contributing     == SelectSeq(UnstakeEvents,
                        LAMBDA e : 0 <= e.days_remaining /\ e.days_remaining <= PressureDays)
ContributingDays == {Contributing[i].days_remaining : i \in 1..Len(Contributing)}

\* C19: the pressure timeline has exactly one bucket for each distinct
\* days-remaining value of the contributing unstake events; its days ascend
\* strictly and lie in 0..14; amount and count of a bucket are the sum and the
\* number of the events of its day; and total_pressure_14_days is the sum of
\* the amounts of all the buckets, whether the report shows them or not
C19_OneBucketPerDay ==
    ProjectionsDone =>
        /\ Len(Timeline) = Cardinality(ContributingDays)
        /\ {Timeline[k].day : k \in 1..Len(Timeline)} = ContributingDays
        /\ \A k \in 1..Len(Timeline) :
              /\ Timeline[k].day \in 0..14
              /\ k > 1 => Timeline[k - 1].day < Timeline[k].day
              /\ Timeline[k].count = Len(EventsOn(Contributing, Timeline[k].day))
              /\ Timeline[k].amount = TotalAmount(EventsOn(Contributing, Timeline[k].day))
        /\ projections.selling_pressure.total_pressure_14_days =
              AmtSum([k \in 1..Len(Timeline) |-> Timeline[k].amount], Whole(0))

\* eight days contribute, events outside 0..14 exist, a bucket holds two
\* events, and the total exceeds the sum of the buckets shown
C19_Witness ==
    /\ ProjectionsDone
    /\ Len(Timeline) = 8
    /\ Len(UnstakeEvents) > Len(Contributing)
    /\ \E k \in 1..Len(Timeline) : Timeline[k].count = 2
    /\ CmpScaled(1, projections.selling_pressure.total_pressure_14_days,
                 1, AmtSum([k \in 1..Len(ShownTimeline) |-> ShownTimeline[k].amount],
                           Whole(0))) > 0

\* C20: the pressure_timeline of the report covers the first 7 days: it holds
\* every bucket of a day in 0..6 and no bucket of a later day
C20_FirstSevenDays ==
    ProjectionsDone =>
        /\ \A k \in 1..Len(ShownTimeline) : ShownTimeline[k].day \in 0..6
        /\ \A k \in 1..Len(Timeline) :
              Timeline[k].day \in 0..6 =>
                  \E m \in 1..Len(ShownTimeline) : ShownTimeline[m] = Timeline[k]

----------------------------------------------------------------------------
(* The grade behind a CRITICAL status                                       *)

\* C21: in a run whose health metrics, projections and summary come from one
\* balance snapshot and one pair of stake and unstake totals, the overall
\* status is CRITICAL only if the grade is CRITICAL: a report never pairs the
\* grade EXCELLENT with a net flow below 0%, nor the grade GOOD with a net
\* flow of -5% or less
C21_CriticalOnlyByGrade ==
    SummaryDone =>
        /\ executive_summary.overall_status = "CRITICAL" => Grade = "CRITICAL"
        /\ ~(Grade = "EXCELLENT" /\ NetFlowPct < 0)
        /\ ~(Grade = "GOOD" /\ NetFlowPct <= -500)

\* the net flow is -5% or less, no pressure is pending that would make the
\* status ATTENTION, and the report is CRITICAL by a CRITICAL grade
C21_Witness ==
    /\ SummaryDone
    /\ NetFlowPct <= -500
    /\ Intensity = "LOW"
    /\ Grade = "CRITICAL"
    /\ executive_summary.overall_status = "CRITICAL"

----------------------------------------------------------------------------
(* The head block of the scans of one run                                   *)

\* C22: within one run the stake scan, the unstake scan and the weekly scans
\* use the same head block, so that they cover the same block window and the
\* two scans count the same number of blocks, even if the latest block of
\* the ledger advances while the run is in progress
C22_SameHead ==
    /\ UnstakingDone =>
          /\ scan_head.unstaking = scan_head.staking
          /\ unstaking_data.blocks_scanned = staking_data.blocks_scanned
    /\ (FlowDone /\ run_days >= DaysPerWeek) => scan_head.weekly = scan_head.staking

----------------------------------------------------------------------------
(* The trend of a window without stake                                      *)

\* C23: whenever the stake total is 0 the flow analysis reports the trend
\* STRONG DECLINE with the score -2, whatever the unstake total, and so also
\* for a window with neither stake nor unstake, whose net amount is 0
C23_NoStakeStrongDecline ==
    (FlowDone /\ StakeTotal = Whole(0)) =>
        /\ flow_analysis.trend_analysis.trend = "STRONG DECLINE"
        /\ flow_analysis.trend_analysis.trend_score = -2

\* a window without any activity, reported as STRONG DECLINE
C23_Witness ==
    /\ FlowDone
    /\ StakeTotal = Whole(0)
    /\ UnstakeTotal = Whole(0)
    /\ flow_analysis.comparison_metrics.net_amount = Whole(0)
    /\ flow_analysis.trend_analysis.trend = "STRONG DECLINE"
    /\ flow_analysis.trend_analysis.trend_score = -2

----------------------------------------------------------------------------
(* The 30-day projections                                                   *)

\* C24: the 30-day projections are consistent with each other: each is 30
\* times the reported daily rate, and projected_net_flow is
\* projected_stake_amount minus projected_unstake_amount, for every stake
\* total, unstake total and window
C24_ProjectionsConsistent ==
    ProjectionsDone =>
        LET p  == projections.projections_30_days
            dr == flow_analysis.daily_rates
        IN  /\ p.projected_stake_amount = ProjectionDays * dr.daily_stake_amount
            /\ p.projected_unstake_amount = ProjectionDays * dr.daily_unstake_amount
            /\ p.projected_net_flow = ProjectionDays * dr.daily_net_amount
            /\ p.projected_net_flow = p.projected_stake_amount - p.projected_unstake_amount

=============================================================================
